---- MODULE Spec2Model ----
(***************************************************************************)
(* A model of the dax scene-graph node (package dax) and of the part of    *)
(* the math kernel (package dax/math) it uses.                             *)
(*                                                                         *)
(* float32 values are modelled by integers: every input the model draws is *)
(* a small integer, on which float32 arithmetic is exact.  Angles are     *)
(* counted in half turns (an angle k stands for k*Pi radians), so that     *)
(* Sin(angle*0.5) and Cos(angle*0.5) are 0, 1 or -1.                       *)
(*                                                                         *)
(* Go arrays are 0-based and TLA+ sequences 1-based: element i of a Go     *)
(* array is element i+1 of the sequence that models it.                    *)
(***************************************************************************)
EXTENDS Integers, Sequences, FiniteSets, TLC

VARIABLES
    parent,          \* Node.parent: a node, or Nil
    children,        \* Node.children: a sequence of nodes
    position,        \* Node.position: Vec3
    rotation,        \* Node.rotation: Quaternion
    scale,           \* Node.scale: Vec3
    transformValid,  \* Node.transformValid
    transform,       \* Node.transform: the cached local matrix
    worldTransform,  \* Node.worldTransform
    crashed,         \* the process died (unbounded recursion)
    last             \* the last call made on the nodes, and what it returned

vars == <<parent, children, position, rotation, scale, transformValid,
          transform, worldTransform, crashed, last>>

(***************************************************************************)
(* Bounds of the model.                                                    *)
(***************************************************************************)
\* A translation is taken while |x|+|y|+|z| of the node's position stays
\* within MaxCoord.
MaxCoord == 1
\* A scaling is taken while the product of the node's scale components stays
\* within MaxScale.
MaxScale == 2
\* The AddChild calls of one behaviour of SpecTree.
MaxAdds == 3
\* The TranslateX and ScaleX calls of one behaviour of SpecWorld.
MaxMoves == 3
\* A translation is taken while every position component stays within MaxPos
\* of zero.
MaxPos == 3
\* A scaling is taken while every scale component stays within MaxFactor.
MaxFactor == 8

\* Go's nil, for a node without parent.
Nil == "nil"

(***************************************************************************)
(* math: vectors.                                                          *)
(***************************************************************************)
Vec3(x, y, z) == <<x, y, z>>

\* Vec3.Mul: the vector scaled by c.
Vec3Mul(v, c) == <<v[1] * c, v[2] * c, v[3] * c>>

\* Vec3.Dot
Vec3Dot(a, b) == a[1] * b[1] + a[2] * b[2] + a[3] * b[3]

\* Vec3.CrossOf: the cross product a x b.
Vec3Cross(a, b) ==
    <<a[2] * b[3] - a[3] * b[2],
      a[3] * b[1] - a[1] * b[3],
      a[1] * b[2] - a[2] * b[1]>>

\* Vec3.AddScaledVec: v + f*u.
Vec3AddScaledVec(v, f, u) == <<v[1] + f * u[1], v[2] + f * u[2], v[3] + f * u[3]>>

\* Vec3.Vec4 and Vec4.Vec3
Vec3To4(v, w) == <<v[1], v[2], v[3], w>>
Vec4To3(v) == <<v[1], v[2], v[3]>>

Abs(x) == IF x < 0 THEN -x ELSE x

(***************************************************************************)
(* math: Sin and Cos of half the angle, the angle counted in half turns.   *)
(***************************************************************************)
SinHalf(angle) ==
    CASE angle % 4 = 0 -> 0
      [] angle % 4 = 1 -> 1
      [] angle % 4 = 2 -> 0
      [] angle % 4 = 3 -> -1

CosHalf(angle) ==
    CASE angle % 4 = 0 -> 1
      [] angle % 4 = 1 -> 0
      [] angle % 4 = 2 -> -1
      [] angle % 4 = 3 -> 0

(***************************************************************************)
(* math: quaternions.                                                      *)
(***************************************************************************)
Quat(w, v) == [W |-> w, V |-> v]

QuatIdent == Quat(1, <<0, 0, 0>>)

QuatRotate(angle, axis) == Quat(CosHalf(angle), Vec3Mul(axis, SinHalf(angle)))

\* A MulWith with the operands exchanged: q1 becomes q2 * q1.
QuatMulWithLeft(q1, q2) ==
    Quat(q2.W * q1.W - Vec3Dot(q2.V, q1.V),
         Vec3AddScaledVec(Vec3AddScaledVec(Vec3Cross(q2.V, q1.V), q2.W, q1.V), q1.W, q2.V))

\* Quaternion.MulWith: q1 becomes q1 * q2.
QuatMulWith(q1, q2) ==
    LET w == q1.W
        v == q1.V
        c == Vec3Cross(v, q2.V)
    IN  Quat(w * q2.W - Vec3Dot(v, q2.V),
             Vec3AddScaledVec(Vec3AddScaledVec(c, w, q2.V), q2.W, v))

\* Quaternion.Mat4
QuatMat4(q1) ==
    LET w == q1.W
        x == q1.V[1]
        y == q1.V[2]
        z == q1.V[3]
    IN  <<1 - 2*y*y - 2*z*z, 2*x*y + 2*w*z, 2*x*z - 2*w*y, 0,
          2*x*y - 2*w*z, 1 - 2*x*x - 2*z*z, 2*y*z + 2*w*x, 0,
          2*x*z + 2*w*y, 2*y*z - 2*w*x, 1 - 2*x*x - 2*y*y, 0,
          0, 0, 0, 1>>

(***************************************************************************)
(* math: 4x4 matrices, column major.                                       *)
(***************************************************************************)
Ident4 == <<1, 0, 0, 0,  0, 1, 0, 0,  0, 0, 1, 0,  0, 0, 0, 1>>

\* The zero value of a Mat4 (a Go array that was never written).
ZeroMat4 == <<0, 0, 0, 0,  0, 0, 0, 0,  0, 0, 0, 0,  0, 0, 0, 0>>

\* Mat4.Mul4x1
Mul4x1(m1, m2) ==
    <<m1[1]*m2[1] + m1[5]*m2[2] + m1[9]*m2[3] + m1[13]*m2[4],
      m1[2]*m2[1] + m1[6]*m2[2] + m1[10]*m2[3] + m1[14]*m2[4],
      m1[3]*m2[1] + m1[7]*m2[2] + m1[11]*m2[3] + m1[15]*m2[4],
      m1[4]*m2[1] + m1[8]*m2[2] + m1[12]*m2[3] + m1[16]*m2[4]>>

\* The product with its operands exchanged, m2 * m1.
Mul4Swapped(m1, m2) ==
    [i \in 1..16 |->
        LET r == ((i - 1) % 4) + 1
            c == ((i - 1) \div 4) + 1
        IN  m2[r] * m1[4 * (c - 1) + 1] + m2[4 + r] * m1[4 * (c - 1) + 2]
            + m2[8 + r] * m1[4 * (c - 1) + 3] + m2[12 + r] * m1[4 * (c - 1) + 4]]

\* Mat4.Mul4
Mul4(m1, m2) ==
    <<m1[1]*m2[1] + m1[5]*m2[2] + m1[9]*m2[3] + m1[13]*m2[4],
      m1[2]*m2[1] + m1[6]*m2[2] + m1[10]*m2[3] + m1[14]*m2[4],
      m1[3]*m2[1] + m1[7]*m2[2] + m1[11]*m2[3] + m1[15]*m2[4],
      m1[4]*m2[1] + m1[8]*m2[2] + m1[12]*m2[3] + m1[16]*m2[4],
      m1[1]*m2[5] + m1[5]*m2[6] + m1[9]*m2[7] + m1[13]*m2[8],
      m1[2]*m2[5] + m1[6]*m2[6] + m1[10]*m2[7] + m1[14]*m2[8],
      m1[3]*m2[5] + m1[7]*m2[6] + m1[11]*m2[7] + m1[15]*m2[8],
      m1[4]*m2[5] + m1[8]*m2[6] + m1[12]*m2[7] + m1[16]*m2[8],
      m1[1]*m2[9] + m1[5]*m2[10] + m1[9]*m2[11] + m1[13]*m2[12],
      m1[2]*m2[9] + m1[6]*m2[10] + m1[10]*m2[11] + m1[14]*m2[12],
      m1[3]*m2[9] + m1[7]*m2[10] + m1[11]*m2[11] + m1[15]*m2[12],
      m1[4]*m2[9] + m1[8]*m2[10] + m1[12]*m2[11] + m1[16]*m2[12],
      m1[1]*m2[13] + m1[5]*m2[14] + m1[9]*m2[15] + m1[13]*m2[16],
      m1[2]*m2[13] + m1[6]*m2[14] + m1[10]*m2[15] + m1[14]*m2[16],
      m1[3]*m2[13] + m1[7]*m2[14] + m1[11]*m2[15] + m1[15]*m2[16],
      m1[4]*m2[13] + m1[8]*m2[14] + m1[12]*m2[15] + m1[16]*m2[16]>>

\* Mat4.Mul4With: m1 becomes m1 * m2; every product is taken from the old m1
\* (the locals v0..v15) before any element of m1 is written.
Mul4With(m1, m2) ==
    LET v0 == m1[1]*m2[1] + m1[5]*m2[2] + m1[9]*m2[3] + m1[13]*m2[4]
        v1 == m1[2]*m2[1] + m1[6]*m2[2] + m1[10]*m2[3] + m1[14]*m2[4]
        v2 == m1[3]*m2[1] + m1[7]*m2[2] + m1[11]*m2[3] + m1[15]*m2[4]
        v3 == m1[4]*m2[1] + m1[8]*m2[2] + m1[12]*m2[3] + m1[16]*m2[4]
        v4 == m1[1]*m2[5] + m1[5]*m2[6] + m1[9]*m2[7] + m1[13]*m2[8]
        v5 == m1[2]*m2[5] + m1[6]*m2[6] + m1[10]*m2[7] + m1[14]*m2[8]
        v6 == m1[3]*m2[5] + m1[7]*m2[6] + m1[11]*m2[7] + m1[15]*m2[8]
        v7 == m1[4]*m2[5] + m1[8]*m2[6] + m1[12]*m2[7] + m1[16]*m2[8]
        v8 == m1[1]*m2[9] + m1[5]*m2[10] + m1[9]*m2[11] + m1[13]*m2[12]
        v9 == m1[2]*m2[9] + m1[6]*m2[10] + m1[10]*m2[11] + m1[14]*m2[12]
        v10 == m1[3]*m2[9] + m1[7]*m2[10] + m1[11]*m2[11] + m1[15]*m2[12]
        v11 == m1[4]*m2[9] + m1[8]*m2[10] + m1[12]*m2[11] + m1[16]*m2[12]
        v12 == m1[1]*m2[13] + m1[5]*m2[14] + m1[9]*m2[15] + m1[13]*m2[16]
        v13 == m1[2]*m2[13] + m1[6]*m2[14] + m1[10]*m2[15] + m1[14]*m2[16]
        v14 == m1[3]*m2[13] + m1[7]*m2[14] + m1[11]*m2[15] + m1[15]*m2[16]
        v15 == m1[4]*m2[13] + m1[8]*m2[14] + m1[12]*m2[15] + m1[16]*m2[16]
    IN  <<v0, v1, v2, v3, v4, v5, v6, v7, v8, v9, v10, v11, v12, v13, v14, v15>>

(***************************************************************************)
(* math: Transform, a Mat4 that aggregates transformations.                *)
(***************************************************************************)
\* Transform.SetTranslateVec3: the transform becomes the translation by v
\* (the identity with v as its translation column).
SetTranslateVec3(t, v) ==
    <<1, 0, 0, 0,  0, 1, 0, 0,  0, 0, 1, 0,  v[1], v[2], v[3], 1>>

\* Transform.RotateQuat: the rotation of q is multiplied in.
RotateQuat(t, q) == Mul4With(t, QuatMat4(q))

\* Transform.ScaleVec3: the scaling by s is multiplied in.
ScaleVec3(t, s) ==
    Mul4With(t, <<s[1], 0, 0, 0,  0, s[2], 0, 0,  0, 0, s[3], 0,  0, 0, 0, 1>>)

\* Transform.LocalToWorld: the point v mapped by the transform.
LocalToWorld(t, v) == Vec4To3(Mul4x1(t, Vec3To4(v, 1)))

(***************************************************************************)
(* dax: Node.                                                              *)
(***************************************************************************)
\* The nodes that exist.
Live == DOMAIN position

\* What a call leaves in `last`: the method, its receiver, its node argument,
\* whether it ran the composition of the local matrix, the matrix it returned
\* (<<>> when it returns none), whether the receiver's cache was Clean when
\* the call was made, and whether the call replaced a matrix that an earlier
\* composition had left in the cache by a different one.
Call(op, n, arg, composed, ret) ==
    [op |-> op, n |-> n, arg |-> arg, composed |-> composed, ret |-> ret,
     wasValid |-> transformValid[n],
     overwrote |-> composed /\ transform[n] # ZeroMat4 /\ transform[n] # ret]

\* The names of the TRS mutators and of the transform queries in `last`.
TRSMutators ==
    {"SetPosition", "SetPositionV", "TranslateX", "TranslateY", "TranslateZ",
     "SetRotation", "RotateAroundAxis", "RotateX", "RotateY", "RotateZ",
     "SetScale", "SetScaleV", "ScaleX", "ScaleY", "ScaleZ"}

Queries == {"getTransform", "GetTransform"}

\* A NewNode that leaves out the call of Init: every field has its zero value.
NewNodeFieldsNoInit ==
    [parent |-> Nil, children |-> <<>>,
     position |-> <<0, 0, 0>>, rotation |-> Quat(0, <<0, 0, 0>>), scale |-> <<0, 0, 0>>,
     transformValid |-> FALSE, transform |-> ZeroMat4]

\* new(Node) followed by Node.Init: every field has Go's zero value, but the
\* rotation and the scale.
NewNodeFields ==
    [parent |-> Nil, children |-> <<>>,
     position |-> <<0, 0, 0>>, rotation |-> QuatIdent, scale |-> <<1, 1, 1>>,
     transformValid |-> FALSE, transform |-> ZeroMat4]

\* n = NewNode(): the variable n names a fresh node.
NewNode(n) ==
    /\ parent' = [parent EXCEPT ![n] = NewNodeFields.parent]
    /\ children' = [children EXCEPT ![n] = NewNodeFields.children]
    /\ position' = [position EXCEPT ![n] = NewNodeFields.position]
    /\ rotation' = [rotation EXCEPT ![n] = NewNodeFields.rotation]
    /\ scale' = [scale EXCEPT ![n] = NewNodeFields.scale]
    /\ transformValid' = [transformValid EXCEPT ![n] = NewNodeFields.transformValid]
    /\ transform' = [transform EXCEPT ![n] = NewNodeFields.transform]
    /\ worldTransform' = [worldTransform EXCEPT ![n] = ZeroMat4]
    /\ last' = Call("NewNode", n, Nil, FALSE, <<>>)
    /\ UNCHANGED crashed

SetPosition(n, x, y, z) ==
    /\ position' = [position EXCEPT ![n] = [position[n] EXCEPT ![1] = x, ![2] = y, ![3] = z]]
    /\ transformValid' = [transformValid EXCEPT ![n] = FALSE]
    /\ last' = Call("SetPosition", n, <<x, y, z>>, FALSE, <<>>)
    /\ UNCHANGED <<parent, children, rotation, scale, transform, worldTransform, crashed>>

SetPositionV(n, v) ==
    /\ position' = [position EXCEPT ![n] = v]
    /\ transformValid' = [transformValid EXCEPT ![n] = FALSE]
    /\ last' = Call("SetPositionV", n, v, FALSE, <<>>)
    /\ UNCHANGED <<parent, children, rotation, scale, transform, worldTransform, crashed>>

\* A TranslateX that leaves the cache flag as it is.
TranslateXKeepsFlag(n, tx) ==
    /\ position' = [position EXCEPT ![n][1] = @ + tx]
    /\ last' = Call("TranslateX", n, tx, FALSE, <<>>)
    /\ UNCHANGED <<parent, children, rotation, scale, transformValid, transform,
                   worldTransform, crashed>>

TranslateX(n, tx) ==
    /\ position' = [position EXCEPT ![n][1] = @ + tx]
    /\ transformValid' = [transformValid EXCEPT ![n] = FALSE]
    /\ last' = Call("TranslateX", n, tx, FALSE, <<>>)
    /\ UNCHANGED <<parent, children, rotation, scale, transform, worldTransform, crashed>>

\* A TranslateY that leaves the cache flag as it is.
TranslateYKeepsFlag(n, ty) ==
    /\ position' = [position EXCEPT ![n][2] = @ + ty]
    /\ last' = Call("TranslateY", n, ty, FALSE, <<>>)
    /\ UNCHANGED <<parent, children, rotation, scale, transformValid, transform,
                   worldTransform, crashed>>

TranslateY(n, ty) ==
    /\ position' = [position EXCEPT ![n][2] = @ + ty]
    /\ transformValid' = [transformValid EXCEPT ![n] = FALSE]
    /\ last' = Call("TranslateY", n, ty, FALSE, <<>>)
    /\ UNCHANGED <<parent, children, rotation, scale, transform, worldTransform, crashed>>

\* A TranslateZ that stores its argument instead of adding it.
TranslateZStores(n, tz) ==
    /\ position' = [position EXCEPT ![n][3] = tz]
    /\ transformValid' = [transformValid EXCEPT ![n] = FALSE]
    /\ last' = Call("TranslateZ", n, tz, FALSE, <<>>)
    /\ UNCHANGED <<parent, children, rotation, scale, transform, worldTransform, crashed>>

TranslateZ(n, tz) ==
    /\ position' = [position EXCEPT ![n][3] = @ + tz]
    /\ transformValid' = [transformValid EXCEPT ![n] = FALSE]
    /\ last' = Call("TranslateZ", n, tz, FALSE, <<>>)
    /\ UNCHANGED <<parent, children, rotation, scale, transform, worldTransform, crashed>>

SetRotation(n, q) ==
    /\ rotation' = [rotation EXCEPT ![n] = q]
    /\ transformValid' = [transformValid EXCEPT ![n] = FALSE]
    /\ last' = Call("SetRotation", n, q, FALSE, <<>>)
    /\ UNCHANGED <<parent, children, position, scale, transform, worldTransform, crashed>>

\* The body of RotateAroundAxis, which RotateX, RotateY and RotateZ call.
rotateAroundAxis(n, axis, angle) ==
    /\ rotation' = [rotation EXCEPT ![n] = QuatMulWith(@, QuatRotate(angle, axis))]
    /\ transformValid' = [transformValid EXCEPT ![n] = FALSE]
    /\ UNCHANGED <<parent, children, position, scale, transform, worldTransform, crashed>>

RotateAroundAxis(n, axis, angle) ==
    /\ rotateAroundAxis(n, axis, angle)
    /\ last' = Call("RotateAroundAxis", n, <<axis, angle>>, FALSE, <<>>)

RotateX(n, angle) ==
    /\ rotateAroundAxis(n, <<1, 0, 0>>, angle)
    /\ last' = Call("RotateX", n, angle, FALSE, <<>>)

RotateY(n, angle) ==
    /\ rotateAroundAxis(n, <<0, 1, 0>>, angle)
    /\ last' = Call("RotateY", n, angle, FALSE, <<>>)

RotateZ(n, angle) ==
    /\ rotateAroundAxis(n, <<0, 0, 1>>, angle)
    /\ last' = Call("RotateZ", n, angle, FALSE, <<>>)

SetScale(n, sx, sy, sz) ==
    /\ scale' = [scale EXCEPT ![n] = [scale[n] EXCEPT ![1] = sx, ![2] = sy, ![3] = sz]]
    /\ transformValid' = [transformValid EXCEPT ![n] = FALSE]
    /\ last' = Call("SetScale", n, <<sx, sy, sz>>, FALSE, <<>>)
    /\ UNCHANGED <<parent, children, position, rotation, transform, worldTransform, crashed>>

\* A SetScaleV that also resets the rotation of the node.
SetScaleVResetsRotation(n, s) ==
    /\ scale' = [scale EXCEPT ![n] = s]
    /\ rotation' = [rotation EXCEPT ![n] = QuatIdent]
    /\ transformValid' = [transformValid EXCEPT ![n] = FALSE]
    /\ last' = Call("SetScaleV", n, s, FALSE, <<>>)
    /\ UNCHANGED <<parent, children, position, transform, worldTransform, crashed>>

SetScaleV(n, s) ==
    /\ scale' = [scale EXCEPT ![n] = s]
    /\ transformValid' = [transformValid EXCEPT ![n] = FALSE]
    /\ last' = Call("SetScaleV", n, s, FALSE, <<>>)
    /\ UNCHANGED <<parent, children, position, rotation, transform, worldTransform, crashed>>

ScaleX(n, sx) ==
    /\ scale' = [scale EXCEPT ![n][1] = @ * sx]
    /\ transformValid' = [transformValid EXCEPT ![n] = FALSE]
    /\ last' = Call("ScaleX", n, sx, FALSE, <<>>)
    /\ UNCHANGED <<parent, children, position, rotation, transform, worldTransform, crashed>>

\* A ScaleY that adds its argument instead of multiplying by it.
ScaleYAdds(n, sy) ==
    /\ scale' = [scale EXCEPT ![n][2] = @ + sy]
    /\ transformValid' = [transformValid EXCEPT ![n] = FALSE]
    /\ last' = Call("ScaleY", n, sy, FALSE, <<>>)
    /\ UNCHANGED <<parent, children, position, rotation, transform, worldTransform, crashed>>

ScaleY(n, sy) ==
    /\ scale' = [scale EXCEPT ![n][2] = @ * sy]
    /\ transformValid' = [transformValid EXCEPT ![n] = FALSE]
    /\ last' = Call("ScaleY", n, sy, FALSE, <<>>)
    /\ UNCHANGED <<parent, children, position, rotation, transform, worldTransform, crashed>>

\* A ScaleZ that leaves the cache flag as it is.
ScaleZKeepsFlag(n, sz) ==
    /\ scale' = [scale EXCEPT ![n][3] = @ * sz]
    /\ last' = Call("ScaleZ", n, sz, FALSE, <<>>)
    /\ UNCHANGED <<parent, children, position, rotation, transformValid, transform,
                   worldTransform, crashed>>

ScaleZ(n, sz) ==
    /\ scale' = [scale EXCEPT ![n][3] = @ * sz]
    /\ transformValid' = [transformValid EXCEPT ![n] = FALSE]
    /\ last' = Call("ScaleZ", n, sz, FALSE, <<>>)
    /\ UNCHANGED <<parent, children, position, rotation, transform, worldTransform, crashed>>

\* A getTransform without the early return: it composes on every call.
getTransformAlways(valid, t, p, r, s) ==
    [transform |-> ScaleVec3(RotateQuat(SetTranslateVec3(t, p), r), s),
     composed |-> TRUE]

\* A getTransform that multiplies the scale in before the rotation.
getTransformScaleFirst(valid, t, p, r, s) ==
    IF valid
    THEN [transform |-> t, composed |-> FALSE]
    ELSE [transform |-> RotateQuat(ScaleVec3(SetTranslateVec3(t, p), s), r),
          composed |-> TRUE]

\* Node.getTransform on the fields (valid, t, p, r, s) of a node: the cache it
\* leaves, whether it ran the composition, and the matrix it returns (the
\* pointer it returns is to the cache).
getTransform(valid, t, p, r, s) ==
    IF valid
    THEN [transform |-> t, composed |-> FALSE]
    ELSE [transform |-> ScaleVec3(RotateQuat(SetTranslateVec3(t, p), r), s),
          composed |-> TRUE]

getTransformOf(n) ==
    getTransform(transformValid[n], transform[n], position[n], rotation[n], scale[n])

\* A direct call of the unexported n.getTransform().
QueryTransform(n) ==
    /\ transform' = [transform EXCEPT ![n] = getTransformOf(n).transform]
    /\ transformValid' = [transformValid EXCEPT ![n] = TRUE]
    /\ last' = Call("getTransform", n, Nil, getTransformOf(n).composed,
                    getTransformOf(n).transform)
    /\ UNCHANGED <<parent, children, position, rotation, scale, worldTransform, crashed>>

\* n.GetTransform(): getTransform, its result seen as a *Mat4.
GetTransform(n) ==
    /\ transform' = [transform EXCEPT ![n] = getTransformOf(n).transform]
    /\ transformValid' = [transformValid EXCEPT ![n] = TRUE]
    /\ last' = Call("GetTransform", n, Nil, getTransformOf(n).composed,
                    getTransformOf(n).transform)
    /\ UNCHANGED <<parent, children, position, rotation, scale, worldTransform, crashed>>

(***************************************************************************)
(* Accessors.  GetPosition, GetRotation and GetScale return the address of *)
(* the node's own field, and GetTransform the address of the cache: what   *)
(* a caller stores through the pointer is stored in the node.              *)
(***************************************************************************)
\* *n.GetPosition() = v
WriteGetPosition(n, v) ==
    /\ position' = [position EXCEPT ![n] = v]
    /\ last' = Call("WriteGetPosition", n, Nil, FALSE, <<>>)
    /\ UNCHANGED <<parent, children, rotation, scale, transformValid, transform,
                   worldTransform, crashed>>

\* *n.GetRotation() = q
WriteGetRotation(n, q) ==
    /\ rotation' = [rotation EXCEPT ![n] = q]
    /\ last' = Call("WriteGetRotation", n, Nil, FALSE, <<>>)
    /\ UNCHANGED <<parent, children, position, scale, transformValid, transform,
                   worldTransform, crashed>>

\* *n.GetScale() = s
WriteGetScale(n, s) ==
    /\ scale' = [scale EXCEPT ![n] = s]
    /\ last' = Call("WriteGetScale", n, Nil, FALSE, <<>>)
    /\ UNCHANGED <<parent, children, position, rotation, transformValid, transform,
                   worldTransform, crashed>>

\* *n.GetTransform() = m: the call validates the cache, the store overwrites it.
WriteGetTransform(n, m) ==
    /\ transform' = [transform EXCEPT ![n] = m]
    /\ transformValid' = [transformValid EXCEPT ![n] = TRUE]
    /\ last' = Call("WriteGetTransform", n, Nil, getTransformOf(n).composed,
                    getTransformOf(n).transform)
    /\ UNCHANGED <<parent, children, position, rotation, scale, worldTransform, crashed>>

AccessorWrites ==
    {"WriteGetPosition", "WriteGetRotation", "WriteGetScale", "WriteGetTransform"}

(***************************************************************************)
(* dax: the Grapher implementation of Node.                                *)
(***************************************************************************)
\* Node.SetParent, as a function on the parent references.
SetParent(par, n, newParent) == [par EXCEPT ![n] = newParent]

\* An AddChild that puts the child in front of the children sequence.
AddChildAtFront(n, child) ==
    /\ parent' = SetParent(parent, child, n)
    /\ children' = [children EXCEPT ![n] = <<child>> \o @]
    /\ last' = Call("AddChild", n, child, FALSE, <<>>)
    /\ UNCHANGED <<position, rotation, scale, transformValid, transform,
                   worldTransform, crashed>>

\* n.AddChild(child)
AddChild(n, child) ==
    /\ parent' = SetParent(parent, child, n)
    /\ children' = [children EXCEPT ![n] = Append(@, child)]
    /\ last' = Call("AddChild", n, child, FALSE, <<>>)
    /\ UNCHANGED <<position, rotation, scale, transformValid, transform,
                   worldTransform, crashed>>

\* Node.GetChildren and Node.GetParent
GetChildren(n) == children[n]
GetParent(n) == parent[n]

(***************************************************************************)
(* dax: the propagation of world transforms, n.updateWorldTransform.       *)
(***************************************************************************)
RECURSIVE ReachFrom(_)
\* The nodes reached from the nodes of S along the children sequences.
ReachFrom(S) ==
    LET T == S \cup UNION {{GetChildren(m)[i] : i \in 1..Len(GetChildren(m))} : m \in S}
    IN  IF T = S THEN S ELSE ReachFrom(T)

\* The subtree of n: n and what is below it.
Subtree(n) == ReachFrom({n})

\* What is strictly below n.
Below(n) == ReachFrom({GetChildren(n)[i] : i \in 1..Len(GetChildren(n))})

\* The recursion from n comes back to a node it is visiting: it never ends.
Cyclic(n) == \E m \in Subtree(n) : m \in Below(m)

RECURSIVE Propagate(_, _, _, _)
\* The world transforms after the visit of n with parentWorld as its parent
\* input: n's is written first, then each child is visited, in the order of
\* the children sequence, with n's new world transform as input.  w is the
\* world transforms so far, loc the local matrix getTransform gives each node.
Propagate(w, loc, n, parentWorld) ==
    LET RECURSIVE Visit(_, _)
        Visit(ww, i) ==
            IF i > Len(GetChildren(n))
            THEN ww
            ELSE Visit(Propagate(ww, loc, GetChildren(n)[i], ww[n]), i + 1)
    IN  Visit([w EXCEPT ![n] = Mul4(parentWorld, loc[n])], 1)

RECURSIVE VisitsChildrenLastFirst(_, _)
\* A pass that visits the children of a node from the last one to the first.
VisitsChildrenLastFirst(n, from) ==
    LET RECURSIVE Each(_)
        Each(i) == IF i < 1
                   THEN <<>>
                   ELSE VisitsChildrenLastFirst(GetChildren(n)[i], n) \o Each(i - 1)
    IN  <<[node |-> n, from |-> from]>> \o Each(Len(GetChildren(n)))

RECURSIVE Visits(_, _)
\* The writes of the visit of n, in the order the pass makes them: the node
\* written and the node whose world transform was the input (Nil at the
\* node the pass starts at).
Visits(n, from) ==
    LET RECURSIVE Each(_)
        Each(i) == IF i > Len(GetChildren(n))
                   THEN <<>>
                   ELSE Visits(GetChildren(n)[i], n) \o Each(i + 1)
    IN  <<[node |-> n, from |-> from]>> \o Each(1)

\* The parent input of the node a pass starts at: the identity for a node
\* without parent, its parent's world transform otherwise.
RootInput(n) == IF GetParent(n) = Nil THEN Ident4 ELSE worldTransform[GetParent(n)]

\* The step replaces the world transform an earlier pass left in m, a node
\* whose own cache was Clean, by a different one.
PassMoved(m) ==
    /\ transformValid[m]
    /\ worldTransform[m] # ZeroMat4
    /\ worldTransform'[m] # worldTransform[m]

\* n.updateWorldTransform(false)
UpdateWorldTransform(n) ==
    IF Cyclic(n)
    THEN /\ crashed' = TRUE
         /\ last' = Call("updateWorldTransform", n, Nil, FALSE, <<>>)
         /\ UNCHANGED <<parent, children, position, rotation, scale, transformValid,
                        transform, worldTransform>>
    ELSE /\ transform' = [m \in Live |-> IF m \in Subtree(n)
                                          THEN getTransformOf(m).transform
                                          ELSE transform[m]]
         /\ transformValid' = [m \in Live |-> m \in Subtree(n) \/ transformValid[m]]
         /\ worldTransform' = Propagate(worldTransform, transform', n, RootInput(n))
         /\ last' = [Call("updateWorldTransform", n, Nil,
                          \E m \in Subtree(n) : getTransformOf(m).composed, <<>>)
                        EXCEPT !.overwrote = \E m \in Below(n) : PassMoved(m)]
                     @@ [visits |-> Visits(n, Nil)]
         /\ UNCHANGED <<parent, children, position, rotation, scale, crashed>>

(***************************************************************************)
(* The inputs the model draws.                                             *)
(***************************************************************************)
PosInputs == {<<1, 2, 3>>}
PosVInputs == {<<0, 0, 0>>, <<3, 1, 2>>}
Deltas == {1}
\* 1+i is no unit quaternion: SetRotation takes it as it is, and its matrix
\* has off-diagonal elements.
RotInputs == {Quat(1, <<1, 0, 0>>)}
Axes == {<<0, 1, 0>>}
\* In half turns: QuatRotate(2*Pi, axis) is the quaternion -1.
Angles == {2}
ScaleInputs == {<<1, 2, 3>>}
ScaleVInputs == {<<1, 1, 1>>}
Factors == {2}

WithinCoord(v) == Abs(v[1]) + Abs(v[2]) + Abs(v[3]) <= MaxCoord
WithinScale(s) == Abs(s[1] * s[2] * s[3]) <= MaxScale

(***************************************************************************)
(* One node, n := NewNode(), under every TRS mutator and transform query.  *)
(***************************************************************************)
InitNodes(N, lastNew) ==
    /\ parent = [x \in N |-> NewNodeFields.parent]
    /\ children = [x \in N |-> NewNodeFields.children]
    /\ position = [x \in N |-> NewNodeFields.position]
    /\ rotation = [x \in N |-> NewNodeFields.rotation]
    /\ scale = [x \in N |-> NewNodeFields.scale]
    /\ transformValid = [x \in N |-> NewNodeFields.transformValid]
    /\ transform = [x \in N |-> NewNodeFields.transform]
    /\ worldTransform = [x \in N |-> ZeroMat4]
    /\ crashed = FALSE
    /\ last = Call("NewNode", lastNew, Nil, FALSE, <<>>)

Init == InitNodes({"n"}, "n")

Next ==
    \/ \E n \in Live : NewNode(n)
    \/ \E n \in Live, v \in PosInputs : SetPosition(n, v[1], v[2], v[3])
    \/ \E n \in Live, v \in PosVInputs : SetPositionV(n, v)
    \/ \E n \in Live, t \in Deltas :
          /\ WithinCoord([position[n] EXCEPT ![1] = @ + t])
          /\ TranslateX(n, t)
    \/ \E n \in Live, t \in Deltas :
          /\ WithinCoord([position[n] EXCEPT ![2] = @ + t])
          /\ TranslateY(n, t)
    \/ \E n \in Live, t \in Deltas :
          /\ WithinCoord([position[n] EXCEPT ![3] = @ + t])
          /\ TranslateZ(n, t)
    \/ \E n \in Live, q \in RotInputs : SetRotation(n, q)
    \/ \E n \in Live, axis \in Axes, a \in Angles : RotateAroundAxis(n, axis, a)
    \/ \E n \in Live, a \in Angles : RotateX(n, a)
    \/ \E n \in Live, a \in Angles : RotateY(n, a)
    \/ \E n \in Live, a \in Angles : RotateZ(n, a)
    \/ \E n \in Live, s \in ScaleInputs : SetScale(n, s[1], s[2], s[3])
    \/ \E n \in Live, s \in ScaleVInputs : SetScaleV(n, s)
    \/ \E n \in Live, k \in Factors :
          /\ WithinScale([scale[n] EXCEPT ![1] = @ * k])
          /\ ScaleX(n, k)
    \/ \E n \in Live, k \in Factors :
          /\ WithinScale([scale[n] EXCEPT ![2] = @ * k])
          /\ ScaleY(n, k)
    \/ \E n \in Live, k \in Factors :
          /\ WithinScale([scale[n] EXCEPT ![3] = @ * k])
          /\ ScaleZ(n, k)
    \/ \E n \in Live : QueryTransform(n)
    \/ \E n \in Live : GetTransform(n)

Spec == Init /\ [][Next]_vars

(***************************************************************************)
(* T(p) * R(q) * S(s), written out element by element: column c of the     *)
(* rotation matrix of q scaled by s[c], and p as the translation column.   *)
(***************************************************************************)
TRSMatrix(p, q, s) ==
    LET R == QuatMat4(q)
    IN  <<R[1] * s[1], R[2] * s[1], R[3] * s[1], 0,
          R[5] * s[2], R[6] * s[2], R[7] * s[2], 0,
          R[9] * s[3], R[10] * s[3], R[11] * s[3], 0,
          p[1], p[2], p[3], 1>>

LocalMatrix(n) == TRSMatrix(position[n], rotation[n], scale[n])

(***************************************************************************)
(* C1: whenever transformValid is true, the cached transform is the        *)
(* composition of the node's current position, rotation and scale.         *)
(***************************************************************************)
C1_CleanCacheIsComposition ==
    \A n \in Live : transformValid[n] => transform[n] = LocalMatrix(n)

\* A Clean cache on a node that was moved, rotated and scaled.
C1_Witness ==
    /\ transformValid["n"]
    /\ position["n"] = <<1, 2, 3>>
    /\ rotation["n"] = Quat(-1, <<-1, 0, 0>>)
    /\ scale["n"] = <<1, 1, 2>>

(***************************************************************************)
(* C2: right after any TRS mutator call, transformValid of the node is     *)
(* false.                                                                  *)
(***************************************************************************)
C2_MutatorLeavesDirty ==
    last.op \in TRSMutators => transformValid[last.n] = FALSE

\* ScaleZ(2) was called on a node whose cache was Clean.
C2_Witness ==
    /\ last.op = "ScaleZ"
    /\ last.wasValid
    /\ scale["n"] = <<1, 1, 2>>
    /\ transform["n"] = TRSMatrix(position["n"], rotation["n"], <<1, 1, 1>>)
    /\ ~transformValid["n"]

(***************************************************************************)
(* C3: a transform query that follows a transform query of the same node   *)
(* (no mutator call in between) returns the same matrix, does not run the  *)
(* composition, and leaves position, rotation, scale and the cache as they *)
(* are.                                                                    *)
(***************************************************************************)
C3_CacheHit ==
    [][(last.op \in Queries /\ last'.op \in Queries /\ last'.n = last.n)
         => /\ last'.ret = last.ret
            /\ ~last'.composed
            /\ <<position, rotation, scale, transform, transformValid>>' =
                 <<position, rotation, scale, transform, transformValid>>]_vars

\* A query was served from the cache of a node that was moved and scaled.
C3_Witness ==
    /\ last.op \in Queries
    /\ ~last.composed
    /\ position["n"] = <<0, 1, 0>>
    /\ scale["n"] = <<1, 2, 3>>
    /\ last.ret = LocalMatrix("n")

(***************************************************************************)
(* C4: the matrix a transform query returns is T(position) * R(rotation) * *)
(* S(scale) of the node's current state, whatever the cache held before.   *)
(***************************************************************************)
C4_QueryReturnsTRS ==
    last.op \in Queries => last.ret = LocalMatrix(last.n)

\* A query that ran the composition on a rotated, scaled and moved node (the
\* three factors do not commute there), over the matrix of an earlier query.
C4_Witness ==
    /\ last.op \in Queries
    /\ last.composed
    /\ last.overwrote
    /\ position["n"] = <<3, 1, 2>>
    /\ rotation["n"] = Quat(1, <<1, 0, 0>>)
    /\ scale["n"] = <<1, 2, 3>>
    /\ last.ret = <<1, 0, 0, 0,  0, -2, 4, 0,  0, -6, -3, 0,  3, 1, 2, 1>>

(***************************************************************************)
(* C5: a node returned by NewNode has position (0,0,0), the identity       *)
(* rotation, scale (1,1,1), no parent, no children and a Dirty cache; the  *)
(* first transform query on it runs the composition and leaves the cache   *)
(* Clean.                                                                  *)
(***************************************************************************)
C5_NewNodeDefaults ==
    /\ [](last.op = "NewNode" =>
            /\ position[last.n] = <<0, 0, 0>>
            /\ rotation[last.n] = [W |-> 1, V |-> <<0, 0, 0>>]
            /\ scale[last.n] = <<1, 1, 1>>
            /\ parent[last.n] = Nil
            /\ children[last.n] = <<>>
            /\ ~transformValid[last.n])
    /\ [][(last.op = "NewNode" /\ last'.op \in Queries /\ last'.n = last.n)
            => /\ last'.composed
               /\ transformValid'[last.n]
               /\ transform'[last.n] = Ident4]_vars

\* The first query on a fresh node.
C5_Witness ==
    /\ last.op \in Queries
    /\ last.composed
    /\ position["n"] = <<0, 0, 0>>
    /\ rotation["n"] = QuatIdent
    /\ scale["n"] = <<1, 1, 1>>
    /\ transform["n"] = Ident4
    /\ transformValid["n"]

(***************************************************************************)
(* The node with the external code that writes through the pointers the    *)
(* accessors return.                                                       *)
(***************************************************************************)
MatInputs == {Ident4}

NextAlias ==
    \/ Next
    \/ \E n \in Live, v \in PosVInputs : WriteGetPosition(n, v)
    \/ \E n \in Live, q \in RotInputs : WriteGetRotation(n, q)
    \/ \E n \in Live, s \in ScaleInputs : WriteGetScale(n, s)
    \/ \E n \in Live, m \in MatInputs : WriteGetTransform(n, m)

SpecAlias == Init /\ [][NextAlias]_vars

(***************************************************************************)
(* The three nodes n, p and q of TestWorldTransform under any AddChild     *)
(* calls and propagation passes.                                           *)
(***************************************************************************)
GraphNodes == {"n", "p", "q"}

InitGraph == InitNodes(GraphNodes, "q")

\* The AddChild calls made so far: nothing ever leaves a children sequence.
Adds == Len(children["n"]) + Len(children["p"]) + Len(children["q"])

NextTree ==
    \/ \E n \in Live, c \in Live :
          /\ ~crashed
          /\ Adds < MaxAdds
          /\ AddChild(n, c)
    \/ \E n \in Live :
          /\ ~crashed
          /\ UpdateWorldTransform(n)

SpecTree == InitGraph /\ [][NextTree]_vars

(***************************************************************************)
(* The three nodes built into trees, each node added once and to a node    *)
(* that is not below it, then moved and scaled between propagation passes. *)
(***************************************************************************)
\* The moves and scalings made so far, read off the nodes: each TranslateX
\* adds one to a position, each ScaleX doubles a scale.
Moves ==
    LET RECURSIVE Sum(_)
        Sum(S) == IF S = {} THEN 0
                  ELSE LET m == CHOOSE x \in S : TRUE
                       IN  position[m][1] + (scale[m][1] - 1) + Sum(S \ {m})
    IN  Sum(Live)

NextWorld ==
    \/ \E n \in Live, c \in Live :
          /\ GetParent(c) = Nil
          /\ n \notin Subtree(c)
          /\ AddChild(n, c)
    \/ \E n \in Live, t \in Deltas :
          /\ Moves < MaxMoves
          /\ WithinCoord([position[n] EXCEPT ![1] = @ + t])
          /\ TranslateX(n, t)
    \/ \E n \in Live, k \in Factors :
          /\ Moves < MaxMoves
          /\ WithinScale([scale[n] EXCEPT ![1] = @ * k])
          /\ ScaleX(n, k)
    \/ \E n \in Live :
          /\ GetParent(n) = Nil
          /\ UpdateWorldTransform(n)

SpecWorld == InitGraph /\ [][NextWorld]_vars

(***************************************************************************)
(* The places of the children sequences that hold c.                       *)
(***************************************************************************)
Places(c) == {pl \in Live \X (1..MaxAdds + 1) :
                 /\ pl[2] <= Len(GetChildren(pl[1]))
                 /\ GetChildren(pl[1])[pl[2]] = c}

(***************************************************************************)
(* C6: after any sequence of AddChild calls each node is in the children   *)
(* sequence of at most one node, at most once, and that node is the one    *)
(* its parent reference names.                                             *)
(***************************************************************************)
C6_AtMostOneParent ==
    \A c \in Live :
        /\ Cardinality(Places(c)) <= 1
        /\ \A pl \in Places(c) : GetParent(c) = pl[1]

(***************************************************************************)
(* C7: p.AddChild(c) sets the parent of c to p, and the children of p      *)
(* afterwards are the children of p before followed by c.                  *)
(***************************************************************************)
C7_AddChildAppends ==
    [][last'.op = "AddChild" =>
          /\ parent'[last'.arg] = last'.n
          /\ children'[last'.n] = children[last'.n] \o <<last'.arg>>
          /\ \A m \in Live \ {last'.n} : children'[m] = children[m]
          /\ \A m \in Live \ {last'.arg} : parent'[m] = parent[m]]_vars

\* n.AddChild(p) then n.AddChild(q): the children of n are p, then q.
C7_Witness ==
    /\ last.op = "AddChild"
    /\ last.n = "n"
    /\ last.arg = "q"
    /\ GetChildren("n") = <<"p", "q">>
    /\ GetParent("p") = "n"
    /\ GetParent("q") = "n"

(***************************************************************************)
(* Matrix products for the statements about world transforms, written by   *)
(* the definition of the product of column-major 4x4 matrices.             *)
(***************************************************************************)
MatProduct(a, b) ==
    LET e(r, c) == a[r] * b[4 * (c - 1) + 1] + a[4 + r] * b[4 * (c - 1) + 2]
                   + a[8 + r] * b[4 * (c - 1) + 3] + a[12 + r] * b[4 * (c - 1) + 4]
    IN  <<e(1, 1), e(2, 1), e(3, 1), e(4, 1),  e(1, 2), e(2, 2), e(3, 2), e(4, 2),
          e(1, 3), e(2, 3), e(3, 3), e(4, 3),  e(1, 4), e(2, 4), e(3, 4), e(4, 4)>>

RECURSIVE PathProduct(_, _)
\* The product of the local matrices of the nodes on the path from the node
\* `top` down to m, top first.
PathProduct(top, m) ==
    IF m = top
    THEN LocalMatrix(m)
    ELSE MatProduct(PathProduct(top, GetParent(m)), LocalMatrix(m))

\* The point the matrix w maps the local origin to.
OriginOf(w) == <<w[13], w[14], w[15]>>

(***************************************************************************)
(* C8: after a propagation pass started at a root, every node of the       *)
(* root's subtree has worldTransform = parentWorld * localTransform, with  *)
(* the identity as the root's parent input, and so its world transform is  *)
(* the product of the local transforms on the path from the root to it.    *)
(***************************************************************************)
C8_WorldIsParentTimesLocal ==
    (last.op = "updateWorldTransform" /\ GetParent(last.n) = Nil /\ ~crashed) =>
        \A m \in Subtree(last.n) :
            /\ worldTransform[m] =
                   MatProduct(IF m = last.n THEN Ident4
                                           ELSE worldTransform[GetParent(m)],
                              LocalMatrix(m))
            /\ worldTransform[m] = PathProduct(last.n, m)

\* The chain n, p, q, each translated by (1,0,0), after the pass from n: the
\* world transform of q maps the local origin to (3,0,0).
C8_Witness ==
    /\ last.op = "updateWorldTransform"
    /\ last.n = "n"
    /\ GetChildren("n") = <<"p">>
    /\ GetChildren("p") = <<"q">>
    /\ \A m \in Live : position[m] = <<1, 0, 0>>
    /\ LocalToWorld(worldTransform["q"], <<0, 0, 0>>) = <<3, 0, 0>>

RECURSIVE PathBelow(_, _)
\* The product of the local matrices below x on the path down to m, the
\* identity when m is x.
PathBelow(x, m) ==
    IF m = x THEN Ident4 ELSE MatProduct(PathBelow(x, GetParent(m)), LocalMatrix(m))

(***************************************************************************)
(* C9: the pass reuses no stale world transform.  After a pass from a      *)
(* root, the world transform of every descendant of every node X of the    *)
(* subtree is computed from the local matrix of X as X's position,         *)
(* rotation and scale are now: it is the world transform of X's parent     *)
(* times that local matrix times the local matrices below X, whatever the  *)
(* descendant held before and whether or not its own cache was Clean.      *)
(***************************************************************************)
C9_NoStaleWorldTransform ==
    (last.op = "updateWorldTransform" /\ GetParent(last.n) = Nil /\ ~crashed) =>
        \A x \in Subtree(last.n) : \A m \in Below(x) :
            worldTransform[m] =
                MatProduct(MatProduct(IF x = last.n THEN Ident4
                                                    ELSE worldTransform[GetParent(x)],
                                      TRSMatrix(position[x], rotation[x], scale[x])),
                           PathBelow(x, m))

\* The chain n, p, q: a second pass from n, made after n was translated by
\* (1,0,0), replaces the world transform of a descendant whose own cache was
\* Clean, and the world transform of q maps the origin to (3,0,0).
C9_Witness ==
    /\ last.op = "updateWorldTransform"
    /\ last.n = "n"
    /\ last.overwrote
    /\ ~last.wasValid
    /\ GetChildren("n") = <<"p">>
    /\ GetChildren("p") = <<"q">>
    /\ \A m \in Live : position[m] = <<1, 0, 0>> /\ scale[m] = <<1, 1, 1>>
    /\ OriginOf(worldTransform["p"]) = <<2, 0, 0>>
    /\ OriginOf(worldTransform["q"]) = <<3, 0, 0>>

(***************************************************************************)
(* C10: no value handed out by GetPosition, GetRotation, GetScale or       *)
(* GetTransform lets the caller write to the node: what the caller does    *)
(* with it leaves position, rotation and scale as they were, and leaves no *)
(* cache Clean that disagrees with them.                                   *)
(***************************************************************************)
C10_AccessorsGiveNoWriteAccess ==
    [][last'.op \in AccessorWrites =>
          /\ position' = position
          /\ rotation' = rotation
          /\ scale' = scale
          /\ \A n \in Live :
                transformValid'[n] =>
                    transform'[n] = TRSMatrix(position'[n], rotation'[n], scale'[n])]_vars

(***************************************************************************)
(* dax: the mutators of Node that take the three components of a           *)
(* translation or of a scaling at once.                                    *)
(***************************************************************************)
\* n.Translate(dx, dy, dz)
Translate(n, dx, dy, dz) ==
    /\ position' = [position EXCEPT ![n] = <<@[1] + dx, @[2] + dy, @[3] + dz>>]
    /\ transformValid' = [transformValid EXCEPT ![n] = FALSE]
    /\ last' = Call("Translate", n, <<dx, dy, dz>>, FALSE, <<>>)
    /\ UNCHANGED <<parent, children, rotation, scale, transform, worldTransform, crashed>>

\* n.TranslateV(v)
TranslateV(n, v) ==
    /\ position' = [position EXCEPT ![n] = <<@[1] + v[1], @[2] + v[2], @[3] + v[3]>>]
    /\ transformValid' = [transformValid EXCEPT ![n] = FALSE]
    /\ last' = Call("TranslateV", n, v, FALSE, <<>>)
    /\ UNCHANGED <<parent, children, rotation, scale, transform, worldTransform, crashed>>

\* n.Scale(sx, sy, sz)
Scale(n, sx, sy, sz) ==
    /\ scale' = [scale EXCEPT ![n] = <<@[1] * sx, @[2] * sy, @[3] * sz>>]
    /\ transformValid' = [transformValid EXCEPT ![n] = FALSE]
    /\ last' = Call("Scale", n, <<sx, sy, sz>>, FALSE, <<>>)
    /\ UNCHANGED <<parent, children, position, rotation, transform, worldTransform, crashed>>

\* n.ScaleV(s)
ScaleV(n, s) ==
    /\ scale' = [scale EXCEPT ![n] = <<@[1] * s[1], @[2] * s[2], @[3] * s[3]>>]
    /\ transformValid' = [transformValid EXCEPT ![n] = FALSE]
    /\ last' = Call("ScaleV", n, s, FALSE, <<>>)
    /\ UNCHANGED <<parent, children, position, rotation, transform, worldTransform, crashed>>

\* Every component of v is within c of zero.
WithinBox(v, c) == \A i \in 1..3 : Abs(v[i]) <= c

(***************************************************************************)
(* One node under the translations of TestTranslate.                       *)
(***************************************************************************)
TranslateInputs == {<<1, 2, 3>>}
TranslateVInputs == {<<-1, -1, -1>>}

NextTranslate ==
    \/ \E n \in Live, t \in Deltas :
          /\ WithinBox([position[n] EXCEPT ![1] = @ + t], MaxPos)
          /\ TranslateX(n, t)
    \/ \E n \in Live, t \in Deltas :
          /\ WithinBox([position[n] EXCEPT ![2] = @ + t], MaxPos)
          /\ TranslateY(n, t)
    \/ \E n \in Live, t \in Deltas :
          /\ WithinBox([position[n] EXCEPT ![3] = @ + t], MaxPos)
          /\ TranslateZ(n, t)
    \/ \E n \in Live, d \in TranslateInputs :
          /\ WithinBox(<<position[n][1] + d[1], position[n][2] + d[2],
                         position[n][3] + d[3]>>, MaxPos)
          /\ Translate(n, d[1], d[2], d[3])
    \/ \E n \in Live, v \in TranslateVInputs :
          /\ WithinBox(<<position[n][1] + v[1], position[n][2] + v[2],
                         position[n][3] + v[3]>>, MaxPos)
          /\ TranslateV(n, v)

SpecTranslate == Init /\ [][NextTranslate]_vars

(***************************************************************************)
(* C11: a translation adds to the position.  TranslateX(a), TranslateY(a)  *)
(* and TranslateZ(a) take the position p to p+(a,0,0), p+(0,a,0) and       *)
(* p+(0,0,a); Translate(dx,dy,dz) and TranslateV(v) take it to             *)
(* p+(dx,dy,dz) and p+v.  Step by step the position is then the start      *)
(* position plus the sum of the deltas.                                    *)
(***************************************************************************)
Translations == {"TranslateX", "TranslateY", "TranslateZ", "Translate", "TranslateV"}

\* The vector the translation recorded in c is to add.
DeltaOf(c) ==
    CASE c.op = "TranslateX" -> <<c.arg, 0, 0>>
      [] c.op = "TranslateY" -> <<0, c.arg, 0>>
      [] c.op = "TranslateZ" -> <<0, 0, c.arg>>
      [] OTHER -> c.arg

VecAdd(a, b) == <<a[1] + b[1], a[2] + b[2], a[3] + b[3]>>

C11_TranslationAdds ==
    [][last'.op \in Translations =>
          /\ position'[last'.n] = VecAdd(position[last'.n], DeltaOf(last'))
          /\ rotation' = rotation
          /\ scale' = scale]_vars

\* TranslateV(-1,-1,-1) on a node that earlier translations had taken to
\* (2,2,3), a position only several translations reach.
C11_Witness ==
    /\ last.op = "TranslateV"
    /\ last.arg = <<-1, -1, -1>>
    /\ position["n"] = <<1, 1, 2>>

(***************************************************************************)
(* One node under the scalings of TestSetScale and TestScale.              *)
(***************************************************************************)
ScaleAllInputs == {<<3, 1, 2>>}
ScaleAllVInputs == {<<2, 2, 2>>}

NextScale ==
    \/ \E n \in Live, s \in ScaleInputs : SetScale(n, s[1], s[2], s[3])
    \/ \E n \in Live, s \in ScaleVInputs : SetScaleV(n, s)
    \/ \E n \in Live, k \in Factors :
          /\ WithinBox([scale[n] EXCEPT ![1] = @ * k], MaxFactor)
          /\ ScaleX(n, k)
    \/ \E n \in Live, k \in Factors :
          /\ WithinBox([scale[n] EXCEPT ![2] = @ * k], MaxFactor)
          /\ ScaleY(n, k)
    \/ \E n \in Live, k \in Factors :
          /\ WithinBox([scale[n] EXCEPT ![3] = @ * k], MaxFactor)
          /\ ScaleZ(n, k)
    \/ \E n \in Live, k \in ScaleAllInputs :
          /\ WithinBox(<<scale[n][1] * k[1], scale[n][2] * k[2], scale[n][3] * k[3]>>,
                       MaxFactor)
          /\ Scale(n, k[1], k[2], k[3])
    \/ \E n \in Live, k \in ScaleAllVInputs :
          /\ WithinBox(<<scale[n][1] * k[1], scale[n][2] * k[2], scale[n][3] * k[3]>>,
                       MaxFactor)
          /\ ScaleV(n, k)

SpecScale == Init /\ [][NextScale]_vars

(***************************************************************************)
(* C12: scaling multiplies component by component.  ScaleX(k), ScaleY(k)   *)
(* and ScaleZ(k) multiply only the x, y or z component of the scale by k,  *)
(* Scale(kx,ky,kz) and ScaleV(v) multiply each component by its factor,    *)
(* and SetScale and SetScaleV overwrite the scale.                         *)
(***************************************************************************)
Scalings == {"ScaleX", "ScaleY", "ScaleZ", "Scale", "ScaleV"}

ScaleSetters == {"SetScale", "SetScaleV"}

\* The factors the scaling recorded in c is to multiply by.
FactorsOf(c) ==
    CASE c.op = "ScaleX" -> <<c.arg, 1, 1>>
      [] c.op = "ScaleY" -> <<1, c.arg, 1>>
      [] c.op = "ScaleZ" -> <<1, 1, c.arg>>
      [] OTHER -> c.arg

VecTimes(a, b) == <<a[1] * b[1], a[2] * b[2], a[3] * b[3]>>

C12_ScalingMultiplies ==
    [][/\ last'.op \in Scalings =>
             scale'[last'.n] = VecTimes(scale[last'.n], FactorsOf(last'))
       /\ last'.op \in ScaleSetters => scale'[last'.n] = last'.arg
       /\ last'.op \in Scalings \cup ScaleSetters =>
             position' = position /\ rotation' = rotation]_vars

\* ScaleV(2,2,2) on a node whose scale SetScale had set to (1,2,3).
C12_Witness ==
    /\ last.op = "ScaleV"
    /\ last.arg = <<2, 2, 2>>
    /\ scale["n"] = <<2, 4, 6>>

(***************************************************************************)
(* One node under the rotations, by half turns about the coordinate axes.  *)
(***************************************************************************)
UnitAxes == {<<1, 0, 0>>, <<0, 1, 0>>, <<0, 0, 1>>}
HalfTurns == {1, 2, 3}

NextRotate ==
    \/ \E n \in Live : NewNode(n)
    \/ \E n \in Live, q \in RotInputs : SetRotation(n, q)
    \/ \E n \in Live, axis \in UnitAxes, a \in HalfTurns : RotateAroundAxis(n, axis, a)
    \/ \E n \in Live, a \in HalfTurns : RotateX(n, a)
    \/ \E n \in Live, a \in HalfTurns : RotateY(n, a)
    \/ \E n \in Live, a \in HalfTurns : RotateZ(n, a)

SpecRotate == Init /\ [][NextRotate]_vars

\* The Hamilton product a * b, by its definition:
\* (aw*bw - av.bv, aw*bv + bw*av + av x bv).
Hamilton(a, b) ==
    Quat(a.W * b.W - (a.V[1] * b.V[1] + a.V[2] * b.V[2] + a.V[3] * b.V[3]),
         <<a.W * b.V[1] + b.W * a.V[1] + (a.V[2] * b.V[3] - a.V[3] * b.V[2]),
           a.W * b.V[2] + b.W * a.V[2] + (a.V[3] * b.V[1] - a.V[1] * b.V[3]),
           a.W * b.V[3] + b.W * a.V[3] + (a.V[1] * b.V[2] - a.V[2] * b.V[1])>>)

\* The axis and the angle of the rotation recorded in c.
AxisOf(c) ==
    CASE c.op = "RotateX" -> <<1, 0, 0>>
      [] c.op = "RotateY" -> <<0, 1, 0>>
      [] c.op = "RotateZ" -> <<0, 0, 1>>
      [] OTHER -> c.arg[1]

AngleOf(c) == IF c.op = "RotateAroundAxis" THEN c.arg[2] ELSE c.arg

Rotations == {"RotateAroundAxis", "RotateX", "RotateY", "RotateZ"}

(***************************************************************************)
(* C13: a rotation multiplies the new quaternion onto the existing one.    *)
(* RotateAroundAxis(axis, angle) replaces the rotation r by the Hamilton   *)
(* product r * QuatRotate(angle, axis), r being the left operand; RotateX, *)
(* RotateY and RotateZ do so about (1,0,0), (0,1,0) and (0,0,1); on a      *)
(* fresh node RotateX(a) gives QuatRotate(a, (1,0,0)).                     *)
(***************************************************************************)
C13_RotationMultipliesOnRight ==
    [][last'.op \in Rotations =>
          /\ rotation'[last'.n] =
                 Hamilton(rotation[last'.n], QuatRotate(AngleOf(last'), AxisOf(last')))
          /\ (last'.op = "RotateX" /\ rotation[last'.n] = QuatIdent) =>
                 rotation'[last'.n] = QuatRotate(last'.arg, <<1, 0, 0>>)
          /\ position' = position
          /\ scale' = scale]_vars

\* RotateY by a half turn has taken the rotation to k: the rotation before
\* was i, and i * j = k while j * i = -k.
C13_Witness ==
    /\ last.op = "RotateY"
    /\ last.arg = 1
    /\ rotation["n"] = Quat(0, <<0, 0, 1>>)

(***************************************************************************)
(* math: the matrices, column major.                                       *)
(***************************************************************************)

\* FloatEqual(a, b): a and b are equal up to the library's tolerance. On the
\* integers of the model, which lie far apart, that is equality.
FloatEqual(a, b) == a = b

\* 1 / det without the division.
RecipOmitted(det) == 1

\* 1 / det, for the determinants whose reciprocal is an integer; the
\* inverses divide by no other determinant in the model.
Recip(det) == CASE det = 1 -> 1 [] det = -1 -> -1

\* The five types, and those that have Invert and InverseOf.
MatTypes == {"Mat2", "Mat3", "Mat4", "Mat3x4", "Mat2x3"}

SquareTypes == {"Mat2", "Mat3", "Mat4"}

\* RowLen: the length of a row, the number of columns.
RowLen(type) ==
    CASE type = "Mat2" -> 2
      [] type = "Mat3" -> 3
      [] type = "Mat4" -> 4
      [] type = "Mat3x4" -> 4
      [] type = "Mat2x3" -> 3

\* ColLen: the length of a column, the number of rows.
ColLen(type) ==
    CASE type = "Mat2" -> 2
      [] type = "Mat3" -> 3
      [] type = "Mat4" -> 4
      [] type = "Mat3x4" -> 3
      [] type = "Mat2x3" -> 2

\* Ident2, Ident3, Ident4, Ident3x4, Ident2x3.
IdentOf(type) ==
    CASE type = "Mat2" -> <<1, 0,  0, 1>>
      [] type = "Mat3" -> <<1, 0, 0,  0, 1, 0,  0, 0, 1>>
      [] type = "Mat4" -> Ident4
      [] type = "Mat3x4" -> <<1, 0, 0,  0, 1, 0,  0, 0, 1,  0, 0, 0>>
      [] type = "Mat2x3" -> <<1, 0,  0, 1,  0, 0>>

\* Mat3x4.Index with the number of columns in the place of the number of
\* rows.
IndexByCols(type, row, col) ==
    CASE type = "Mat2" -> col * 2 + row
      [] type = "Mat3" -> col * 3 + row
      [] type = "Mat4" -> col * 4 + row
      [] type = "Mat3x4" -> col * 4 + row
      [] type = "Mat2x3" -> col * 2 + row

\* Mat2.Index, Mat3.Index, Mat4.Index, Mat3x4.Index, Mat2x3.Index
Index(type, row, col) ==
    CASE type = "Mat2" -> col * 2 + row
      [] type = "Mat3" -> col * 3 + row
      [] type = "Mat4" -> col * 4 + row
      [] type = "Mat3x4" -> col * 3 + row
      [] type = "Mat2x3" -> col * 2 + row

\* Mat2.At, Mat3.At, Mat4.At, Mat3x4.At, Mat2x3.At
At(type, m1, row, col) ==
    CASE type = "Mat2" -> m1[col * 2 + row + 1]
      [] type = "Mat3" -> m1[col * 3 + row + 1]
      [] type = "Mat4" -> m1[col * 4 + row + 1]
      [] type = "Mat3x4" -> m1[col * 3 + row + 1]
      [] type = "Mat2x3" -> m1[col * 2 + row + 1]

\* Mat2.Set, Mat3.Set, Mat4.Set, Mat3x4.Set, Mat2x3.Set
Set(type, m1, row, col, value) ==
    CASE type = "Mat2" -> [m1 EXCEPT ![col * 2 + row + 1] = value]
      [] type = "Mat3" -> [m1 EXCEPT ![col * 3 + row + 1] = value]
      [] type = "Mat4" -> [m1 EXCEPT ![col * 4 + row + 1] = value]
      [] type = "Mat3x4" -> [m1 EXCEPT ![col * 3 + row + 1] = value]
      [] type = "Mat2x3" -> [m1 EXCEPT ![col * 2 + row + 1] = value]

\* Mat2.SetCol, Mat3.SetCol, Mat4.SetCol, Mat3x4.SetCol, Mat2x3.SetCol
SetCol(type, m1, col, v) ==
    CASE type = "Mat2" ->
             ([m1 EXCEPT ![col * 2 + 1] = v[1],
                        ![col * 2 + 2] = v[2]])
      [] type = "Mat3" ->
             ([m1 EXCEPT ![col * 3 + 1] = v[1],
                        ![col * 3 + 2] = v[2],
                        ![col * 3 + 3] = v[3]])
      [] type = "Mat4" ->
             ([m1 EXCEPT ![col * 4 + 1] = v[1],
                        ![col * 4 + 2] = v[2],
                        ![col * 4 + 3] = v[3],
                        ![col * 4 + 4] = v[4]])
      [] type = "Mat3x4" ->
             ([m1 EXCEPT ![col * 3 + 1] = v[1],
                        ![col * 3 + 2] = v[2],
                        ![col * 3 + 3] = v[3]])
      [] type = "Mat2x3" ->
             ([m1 EXCEPT ![col * 2 + 1] = v[1],
                        ![col * 2 + 2] = v[2]])

\* Mat2.SetRow, Mat3.SetRow, Mat4.SetRow, Mat3x4.SetRow, Mat2x3.SetRow
SetRow(type, m1, row, v) ==
    CASE type = "Mat2" ->
             ([m1 EXCEPT ![row + 1] = v[1],
                        ![row + 3] = v[2]])
      [] type = "Mat3" ->
             ([m1 EXCEPT ![row + 1] = v[1],
                        ![row + 4] = v[2],
                        ![row + 7] = v[3]])
      [] type = "Mat4" ->
             ([m1 EXCEPT ![row + 1] = v[1],
                        ![row + 5] = v[2],
                        ![row + 9] = v[3],
                        ![row + 13] = v[4]])
      [] type = "Mat3x4" ->
             ([m1 EXCEPT ![row + 1] = v[1],
                        ![row + 4] = v[2],
                        ![row + 7] = v[3],
                        ![row + 10] = v[4]])
      [] type = "Mat2x3" ->
             ([m1 EXCEPT ![row + 1] = v[1],
                        ![row + 3] = v[2],
                        ![row + 5] = v[3]])

\* Mat2.Row, Mat3.Row, Mat4.Row, Mat3x4.Row, Mat2x3.Row
Row(type, m1, row) ==
    CASE type = "Mat2" ->
             (<<m1[row + 1],
                m1[row + 3]>>)
      [] type = "Mat3" ->
             (<<m1[row + 1],
                m1[row + 4],
                m1[row + 7]>>)
      [] type = "Mat4" ->
             (<<m1[row + 1],
                m1[row + 5],
                m1[row + 9],
                m1[row + 13]>>)
      [] type = "Mat3x4" ->
             (<<m1[row + 1],
                m1[row + 4],
                m1[row + 7],
                m1[row + 10]>>)
      [] type = "Mat2x3" ->
             (<<m1[row + 1],
                m1[row + 3],
                m1[row + 5]>>)

\* Mat2.Col, Mat3.Col, Mat4.Col, Mat3x4.Col, Mat2x3.Col
Col(type, m1, col) ==
    CASE type = "Mat2" ->
             (<<m1[col * 2 + 1],
                m1[col * 2 + 2]>>)
      [] type = "Mat3" ->
             (<<m1[col * 3 + 1],
                m1[col * 3 + 2],
                m1[col * 3 + 3]>>)
      [] type = "Mat4" ->
             (<<m1[col * 4 + 1],
                m1[col * 4 + 2],
                m1[col * 4 + 3],
                m1[col * 4 + 4]>>)
      [] type = "Mat3x4" ->
             (<<m1[col * 3 + 1],
                m1[col * 3 + 2],
                m1[col * 3 + 3]>>)
      [] type = "Mat2x3" ->
             (<<m1[col * 2 + 1],
                m1[col * 2 + 2]>>)

\* Mat2.Mul, Mat3.Mul, Mat4.Mul, Mat3x4.Mul, Mat2x3.Mul
Mul(type, m1, c) ==
    CASE type = "Mat2" ->
             (<<m1[1] * c,
                m1[2] * c,
                m1[3] * c,
                m1[4] * c>>)
      [] type = "Mat3" ->
             (<<m1[1] * c,
                m1[2] * c,
                m1[3] * c,
                m1[4] * c,
                m1[5] * c,
                m1[6] * c,
                m1[7] * c,
                m1[8] * c,
                m1[9] * c>>)
      [] type = "Mat4" ->
             (<<m1[1] * c,
                m1[2] * c,
                m1[3] * c,
                m1[4] * c,
                m1[5] * c,
                m1[6] * c,
                m1[7] * c,
                m1[8] * c,
                m1[9] * c,
                m1[10] * c,
                m1[11] * c,
                m1[12] * c,
                m1[13] * c,
                m1[14] * c,
                m1[15] * c,
                m1[16] * c>>)
      [] type = "Mat3x4" ->
             (<<m1[1] * c,
                m1[2] * c,
                m1[3] * c,
                m1[4] * c,
                m1[5] * c,
                m1[6] * c,
                m1[7] * c,
                m1[8] * c,
                m1[9] * c,
                m1[10] * c,
                m1[11] * c,
                m1[12] * c>>)
      [] type = "Mat2x3" ->
             (<<m1[1] * c,
                m1[2] * c,
                m1[3] * c,
                m1[4] * c,
                m1[5] * c,
                m1[6] * c>>)

\* Mat3.MulWith, Mat4.MulWith
MulWith(type, m1, c) ==
    CASE type = "Mat3" ->
             (LET r1 == [m1 EXCEPT ![1] = @ * c]
                  r2 == [r1 EXCEPT ![2] = @ * c]
                  r3 == [r2 EXCEPT ![3] = @ * c]
                  r4 == [r3 EXCEPT ![4] = @ * c]
                  r5 == [r4 EXCEPT ![5] = @ * c]
                  r6 == [r5 EXCEPT ![6] = @ * c]
                  r7 == [r6 EXCEPT ![7] = @ * c]
                  r8 == [r7 EXCEPT ![8] = @ * c]
              IN  [r8 EXCEPT ![9] = @ * c])
      [] type = "Mat4" ->
             (LET r1 == [m1 EXCEPT ![1] = @ * c]
                  r2 == [r1 EXCEPT ![2] = @ * c]
                  r3 == [r2 EXCEPT ![3] = @ * c]
                  r4 == [r3 EXCEPT ![4] = @ * c]
                  r5 == [r4 EXCEPT ![5] = @ * c]
                  r6 == [r5 EXCEPT ![6] = @ * c]
                  r7 == [r6 EXCEPT ![7] = @ * c]
                  r8 == [r7 EXCEPT ![8] = @ * c]
                  r9 == [r8 EXCEPT ![9] = @ * c]
                  r10 == [r9 EXCEPT ![10] = @ * c]
                  r11 == [r10 EXCEPT ![11] = @ * c]
                  r12 == [r11 EXCEPT ![12] = @ * c]
                  r13 == [r12 EXCEPT ![13] = @ * c]
                  r14 == [r13 EXCEPT ![14] = @ * c]
                  r15 == [r14 EXCEPT ![15] = @ * c]
              IN  [r15 EXCEPT ![16] = @ * c])

\* Mat2.Mul2
Mul2(m1, m2) ==
    <<m1[1] * m2[1] + m1[3] * m2[2],
      m1[2] * m2[1] + m1[4] * m2[2],
      m1[1] * m2[3] + m1[3] * m2[4],
      m1[2] * m2[3] + m1[4] * m2[4]>>

\* Mat3.Mul3
Mul3(m1, m2) ==
    <<m1[1] * m2[1] + m1[4] * m2[2] + m1[7] * m2[3],
      m1[2] * m2[1] + m1[5] * m2[2] + m1[8] * m2[3],
      m1[3] * m2[1] + m1[6] * m2[2] + m1[9] * m2[3],
      m1[1] * m2[4] + m1[4] * m2[5] + m1[7] * m2[6],
      m1[2] * m2[4] + m1[5] * m2[5] + m1[8] * m2[6],
      m1[3] * m2[4] + m1[6] * m2[5] + m1[9] * m2[6],
      m1[1] * m2[7] + m1[4] * m2[8] + m1[7] * m2[9],
      m1[2] * m2[7] + m1[5] * m2[8] + m1[8] * m2[9],
      m1[3] * m2[7] + m1[6] * m2[8] + m1[9] * m2[9]>>

\* Mat3x4.Mul3x4
Mul3x4(m1, m2) ==
    <<m1[1] * m2[1] + m1[4] * m2[2] + m1[7] * m2[3],
      m1[2] * m2[1] + m1[5] * m2[2] + m1[8] * m2[3],
      m1[3] * m2[1] + m1[6] * m2[2] + m1[9] * m2[3],
      m1[1] * m2[4] + m1[4] * m2[5] + m1[7] * m2[6],
      m1[2] * m2[4] + m1[5] * m2[5] + m1[8] * m2[6],
      m1[3] * m2[4] + m1[6] * m2[5] + m1[9] * m2[6],
      m1[1] * m2[7] + m1[4] * m2[8] + m1[7] * m2[9],
      m1[2] * m2[7] + m1[5] * m2[8] + m1[8] * m2[9],
      m1[3] * m2[7] + m1[6] * m2[8] + m1[9] * m2[9],
      m1[1] * m2[10] + m1[4] * m2[11] + m1[7] * m2[12] + m1[10],
      m1[2] * m2[10] + m1[5] * m2[11] + m1[8] * m2[12] + m1[11],
      m1[3] * m2[10] + m1[6] * m2[11] + m1[9] * m2[12] + m1[12]>>

\* Mat2x3.Mul2x3 without the translation of m1 in the last column.
Mul2x3DropsTranslation(m1, m2) ==
    <<m1[1] * m2[1] + m1[3] * m2[2],
      m1[2] * m2[1] + m1[4] * m2[2],
      m1[1] * m2[3] + m1[3] * m2[4],
      m1[2] * m2[3] + m1[4] * m2[4],
      m1[1] * m2[5] + m1[3] * m2[6],
      m1[2] * m2[5] + m1[4] * m2[6]>>

\* Mat2x3.Mul2x3
Mul2x3(m1, m2) ==
    <<m1[1] * m2[1] + m1[3] * m2[2],
      m1[2] * m2[1] + m1[4] * m2[2],
      m1[1] * m2[3] + m1[3] * m2[4],
      m1[2] * m2[3] + m1[4] * m2[4],
      m1[1] * m2[5] + m1[3] * m2[6] + m1[5],
      m1[2] * m2[5] + m1[4] * m2[6] + m1[6]>>

\* Mul2, Mul3, Mul4, Mul3x4, Mul2x3: the product of two matrices of a type.
ProductOf(type, m1, m2) ==
    CASE type = "Mat2" -> Mul2(m1, m2)
      [] type = "Mat3" -> Mul3(m1, m2)
      [] type = "Mat4" -> Mul4(m1, m2)
      [] type = "Mat3x4" -> Mul3x4(m1, m2)
      [] type = "Mat2x3" -> Mul2x3(m1, m2)

\* Mat3x4.Mat4
Mat3x4Mat4(m1) ==
    <<m1[1],
      m1[2],
      m1[3],
      0,
      m1[4],
      m1[5],
      m1[6],
      0,
      m1[7],
      m1[8],
      m1[9],
      0,
      m1[10],
      m1[11],
      m1[12],
      1>>

\* Mat2x3.Mat3
Mat2x3Mat3(m1) ==
    <<m1[1],
      m1[2],
      0,
      m1[3],
      m1[4],
      0,
      m1[5],
      m1[6],
      1>>

\* Mat2.Det, Mat3.Det, Mat4.Det, Mat3x4.Det, Mat2x3.Det
Det(type, m1) ==
    CASE type = "Mat2" -> m1[1] * m1[4] - m1[2] * m1[3]
      [] type = "Mat3" -> m1[1] * m1[5] * m1[9] + m1[4] * m1[8] * m1[3] + m1[7] * m1[2] * m1[6] - m1[7] * m1[5] * m1[3] - m1[4] * m1[2] * m1[9] - m1[1] * m1[8] * m1[6]
      [] type = "Mat4" -> m1[1] * m1[6] * m1[11] * m1[16] - m1[1] * m1[6] * m1[12] * m1[15] - m1[1] * m1[7] * m1[10] * m1[16] + m1[1] * m1[7] * m1[12] * m1[14] + m1[1] * m1[8] * m1[10] * m1[15] - m1[1] * m1[8] * m1[11] * m1[14] - m1[2] * m1[5] * m1[11] * m1[16] + m1[2] * m1[5] * m1[12] * m1[15] + m1[2] * m1[7] * m1[9] * m1[16] - m1[2] * m1[7] * m1[12] * m1[13] - m1[2] * m1[8] * m1[9] * m1[15] + m1[2] * m1[8] * m1[11] * m1[13] + m1[3] * m1[5] * m1[10] * m1[16] - m1[3] * m1[5] * m1[12] * m1[14] - m1[3] * m1[6] * m1[9] * m1[16] + m1[3] * m1[6] * m1[12] * m1[13] + m1[3] * m1[8] * m1[9] * m1[14] - m1[3] * m1[8] * m1[10] * m1[13] - m1[4] * m1[5] * m1[10] * m1[15] + m1[4] * m1[5] * m1[11] * m1[14] + m1[4] * m1[6] * m1[9] * m1[15] - m1[4] * m1[6] * m1[11] * m1[13] - m1[4] * m1[7] * m1[9] * m1[14] + m1[4] * m1[7] * m1[10] * m1[13]
      [] type = "Mat3x4" -> m1[1] * m1[5] * m1[9] - m1[1] * m1[6] * m1[8] - m1[2] * m1[4] * m1[9] + m1[2] * m1[6] * m1[7] + m1[3] * m1[4] * m1[8] - m1[3] * m1[5] * m1[7]
      [] type = "Mat2x3" -> m1[1] * m1[4] - m1[3] * m1[2]

\* Mat2.Inverse, Mat3.Inverse, Mat4.Inverse, Mat3x4.Inverse, Mat2x3.Inverse
Inverse(type, m1) ==
    CASE type = "Mat2" ->
             (LET det == Det("Mat2", m1)
              IN  IF FloatEqual(det, 0)
                  THEN <<0, 0, 0, 0>>
                  ELSE LET over == Recip(det)
                       IN  <<m1[4] * over,
                             -m1[2] * over,
                             -m1[3] * over,
                             m1[1] * over>>)
      [] type = "Mat3" ->
             (LET det == Det("Mat3", m1)
              IN  IF FloatEqual(det, 0)
                  THEN <<0, 0, 0, 0, 0, 0, 0, 0, 0>>
                  ELSE LET retMat == <<m1[5] * m1[9] - m1[6] * m1[8],
                                       m1[3] * m1[8] - m1[2] * m1[9],
                                       m1[2] * m1[6] - m1[3] * m1[5],
                                       m1[6] * m1[7] - m1[4] * m1[9],
                                       m1[1] * m1[9] - m1[3] * m1[7],
                                       m1[3] * m1[4] - m1[1] * m1[6],
                                       m1[4] * m1[8] - m1[5] * m1[7],
                                       m1[2] * m1[7] - m1[1] * m1[8],
                                       m1[1] * m1[5] - m1[2] * m1[4]>>
                       IN  Mul("Mat3", retMat, Recip(det)))
      [] type = "Mat4" ->
             (LET det == Det("Mat4", m1)
              IN  IF FloatEqual(det, 0)
                  THEN <<0, 0, 0, 0, 0, 0, 0, 0, 0, 0, 0, 0, 0, 0, 0, 0>>
                  ELSE LET v0 == m1[1]
                           v1 == m1[2]
                           v2 == m1[3]
                           v3 == m1[4]
                           v4 == m1[5]
                           v5 == m1[6]
                           v6 == m1[7]
                           v7 == m1[8]
                           v8 == m1[9]
                           v9 == m1[10]
                           v10 == m1[11]
                           v11 == m1[12]
                           v12 == m1[13]
                           v13 == m1[14]
                           v14 == m1[15]
                           v15 == m1[16]
                           v7v10 == v7 * v10
                           v6v11 == v6 * v11
                           v7v9 == v7 * v9
                           v5v11 == v5 * v11
                           v6v9 == v6 * v9
                           v5v10 == v5 * v10
                           v1v4 == v1 * v4
                           v4v9 == v4 * v9
                           v6v8 == v6 * v8
                           v5v8 == v5 * v8
                           v7v8 == v7 * v8
                           v1v12 == v1 * v12
                           v2v12 == v2 * v12
                           v2v13 == v2 * v13
                           v2v15 == v2 * v15
                           v3v12 == v3 * v12
                           v3v13 == v3 * v13
                           v3v14 == v3 * v14
                           v4v10 == v4 * v10
                           v4v11 == v4 * v11
                           v10v15 == v10 * v15
                           v7v14 == v7 * v14
                           v6v15 == v6 * v15
                           v0v11 == v0 * v11
                           v1v8 == v1 * v8
                           v0v9 == v0 * v9
                           v0v5 == v0 * v5
                           v0v13 == v0 * v13
                           retMat == <<-v7v10 * v13 + v6v11 * v13 + v7v9 * v14 - v5v11 * v14 - v6v9 * v15 + v5v10 * v15,
                                       v3v13 * v10 - v2v13 * v11 - v3v14 * v9 + v1 * v11 * v14 + v2v15 * v9 - v1 * v10v15,
                                       -v3v13 * v6 + v2v13 * v7 + v3v14 * v5 - v1 * v7v14 - v2v15 * v5 + v1 * v6v15,
                                       v3 * v6v9 - v2 * v7v9 - v3 * v5v10 + v1 * v7v10 + v2 * v5v11 - v1 * v6v11,
                                       v7v10 * v12 - v6v11 * v12 - v7v8 * v14 + v4v11 * v14 + v6v8 * v15 - v4v10 * v15,
                                       -v3v12 * v10 + v2v12 * v11 + v3v14 * v8 - v0v11 * v14 - v2v15 * v8 + v0 * v10v15,
                                       v3v12 * v6 - v2v12 * v7 - v3v14 * v4 + v0 * v7v14 + v2v15 * v4 - v0 * v6v15,
                                       -v3 * v6v8 + v2 * v7v8 + v3 * v4v10 - v0 * v7v10 - v2 * v4v11 + v0 * v6v11,
                                       -v7v9 * v12 + v5v11 * v12 + v7v8 * v13 - v4v11 * v13 - v5v8 * v15 + v4v9 * v15,
                                       v3v12 * v9 - v1v12 * v11 - v3v13 * v8 + v0v11 * v13 + v1v8 * v15 - v0v9 * v15,
                                       -v3v12 * v5 + v1v12 * v7 + v3v13 * v4 - v0v13 * v7 - v1v4 * v15 + v0v5 * v15,
                                       v3 * v5v8 - v1 * v7v8 - v3 * v4v9 + v0 * v7v9 + v1v4 * v11 - v0 * v5v11,
                                       v6v9 * v12 - v5v10 * v12 - v6v8 * v13 + v4v10 * v13 + v5v8 * v14 - v4v9 * v14,
                                       -v2v12 * v9 + v1v12 * v10 + v2v13 * v8 - v0v13 * v10 - v1v8 * v14 + v0v9 * v14,
                                       v2v12 * v5 - v1v12 * v6 - v2v13 * v4 + v0v13 * v6 + v1v4 * v14 - v0v5 * v14,
                                       -v2 * v5v8 + v1 * v6v8 + v2 * v4v9 - v0 * v6v9 - v1v4 * v10 + v0 * v5v10>>
                       IN  Mul("Mat4", retMat, Recip(det)))
      [] type = "Mat3x4" ->
             (LET det == Det("Mat3x4", m1)
              IN  IF FloatEqual(det, 0)
                  THEN <<0, 0, 0, 0, 0, 0, 0, 0, 0, 0, 0, 0>>
                  ELSE LET retMat == <<m1[5] * m1[9] - m1[6] * m1[8],
                                       m1[3] * m1[8] - m1[2] * m1[9],
                                       m1[2] * m1[6] - m1[3] * m1[5],
                                       m1[6] * m1[7] - m1[4] * m1[9],
                                       m1[1] * m1[9] - m1[3] * m1[7],
                                       m1[3] * m1[4] - m1[1] * m1[6],
                                       m1[4] * m1[8] - m1[5] * m1[7],
                                       m1[2] * m1[7] - m1[1] * m1[8],
                                       m1[1] * m1[5] - m1[2] * m1[4],
                                       m1[6] * m1[8] * m1[10] - m1[5] * m1[9] * m1[10] - m1[6] * m1[7] * m1[11] + m1[4] * m1[9] * m1[11] + m1[5] * m1[7] * m1[12] - m1[4] * m1[8] * m1[12],
                                       -m1[3] * m1[10] * m1[8] + m1[2] * m1[10] * m1[9] + m1[3] * m1[11] * m1[7] - m1[1] * m1[11] * m1[9] - m1[2] * m1[7] * m1[12] + m1[1] * m1[8] * m1[12],
                                       m1[3] * m1[10] * m1[5] - m1[2] * m1[10] * m1[6] - m1[3] * m1[11] * m1[4] + m1[1] * m1[11] * m1[6] + m1[2] * m1[4] * m1[12] - m1[1] * m1[5] * m1[12]>>
                       IN  Mul("Mat3x4", retMat, Recip(det)))
      [] type = "Mat2x3" ->
             (LET det == Det("Mat2x3", m1)
              IN  IF FloatEqual(det, 0)
                  THEN <<0, 0, 0, 0, 0, 0>>
                  ELSE LET retMat == <<m1[4],
                                       -m1[2],
                                       -m1[2],
                                       m1[1],
                                       m1[2] * m1[6] - m1[4] * m1[5],
                                       m1[2] * m1[5] - m1[1] * m1[6]>>
                       IN  Mul("Mat2x3", retMat, Recip(det)))

\* Mat2.Invert, Mat3.Invert, Mat4.Invert
Invert(type, m1) ==
    CASE type = "Mat2" ->
             (LET det == Det("Mat2", m1)
              IN  IF FloatEqual(det, 0)
                  THEN <<0, 0, 0, 0>>
                  ELSE LET over == Recip(det)
                       IN  <<m1[4] * over,
                             -m1[2] * over,
                             -m1[3] * over,
                             m1[1] * over>>)
      [] type = "Mat3" ->
             (LET det == Det("Mat3", m1)
              IN  IF FloatEqual(det, 0)
                  THEN <<0, 0, 0, 0, 0, 0, 0, 0, 0>>
                  ELSE LET v0 == m1[1]
                           v1 == m1[2]
                           v2 == m1[3]
                           v3 == m1[4]
                           v4 == m1[5]
                           v5 == m1[6]
                           v6 == m1[7]
                           v7 == m1[8]
                           v8 == m1[9]
                           r1 == [m1 EXCEPT ![1] = v4 * v8 - v5 * v7]
                           r2 == [r1 EXCEPT ![2] = v2 * v7 - v1 * v8]
                           r3 == [r2 EXCEPT ![3] = v1 * v5 - v2 * v4]
                           r4 == [r3 EXCEPT ![4] = v5 * v6 - v3 * v8]
                           r5 == [r4 EXCEPT ![5] = v0 * v8 - v2 * v6]
                           r6 == [r5 EXCEPT ![6] = v2 * v3 - v0 * v5]
                           r7 == [r6 EXCEPT ![7] = v3 * v7 - v4 * v6]
                           r8 == [r7 EXCEPT ![8] = v1 * v6 - v0 * v7]
                           r9 == [r8 EXCEPT ![9] = v0 * v4 - v1 * v3]
                       IN  MulWith("Mat3", r9, Recip(det)))
      [] type = "Mat4" ->
             (LET det == Det("Mat4", m1)
              IN  IF FloatEqual(det, 0)
                  THEN <<0, 0, 0, 0, 0, 0, 0, 0, 0, 0, 0, 0, 0, 0, 0, 0>>
                  ELSE LET v0 == m1[1]
                           v1 == m1[2]
                           v2 == m1[3]
                           v3 == m1[4]
                           v4 == m1[5]
                           v5 == m1[6]
                           v6 == m1[7]
                           v7 == m1[8]
                           v8 == m1[9]
                           v9 == m1[10]
                           v10 == m1[11]
                           v11 == m1[12]
                           v12 == m1[13]
                           v13 == m1[14]
                           v14 == m1[15]
                           v15 == m1[16]
                           v7v10 == v7 * v10
                           v6v11 == v6 * v11
                           v7v9 == v7 * v9
                           v5v11 == v5 * v11
                           v6v9 == v6 * v9
                           v5v10 == v5 * v10
                           v1v4 == v1 * v4
                           v4v9 == v4 * v9
                           v6v8 == v6 * v8
                           v5v8 == v5 * v8
                           v7v8 == v7 * v8
                           v1v12 == v1 * v12
                           v2v12 == v2 * v12
                           v2v13 == v2 * v13
                           v2v15 == v2 * v15
                           v3v12 == v3 * v12
                           v3v13 == v3 * v13
                           v3v14 == v3 * v14
                           v4v10 == v4 * v10
                           v4v11 == v4 * v11
                           v10v15 == v10 * v15
                           v7v14 == v7 * v14
                           v6v15 == v6 * v15
                           v0v11 == v0 * v11
                           v1v8 == v1 * v8
                           v0v9 == v0 * v9
                           v0v5 == v0 * v5
                           v0v13 == v0 * v13
                           r1 == [m1 EXCEPT ![1] = -v7v10 * v13 + v6v11 * v13 + v7v9 * v14 - v5v11 * v14 - v6v9 * v15 + v5v10 * v15]
                           r2 == [r1 EXCEPT ![2] = v3v13 * v10 - v2v13 * v11 - v3v14 * v9 + v1 * v11 * v14 + v2v15 * v9 - v1 * v10v15]
                           r3 == [r2 EXCEPT ![3] = -v3v13 * v6 + v2v13 * v7 + v3v14 * v5 - v1 * v7v14 - v2v15 * v5 + v1 * v6v15]
                           r4 == [r3 EXCEPT ![4] = v3 * v6v9 - v2 * v7v9 - v3 * v5v10 + v1 * v7v10 + v2 * v5v11 - v1 * v6v11]
                           r5 == [r4 EXCEPT ![5] = v7v10 * v12 - v6v11 * v12 - v7v8 * v14 + v4v11 * v14 + v6v8 * v15 - v4v10 * v15]
                           r6 == [r5 EXCEPT ![6] = -v3v12 * v10 + v2v12 * v11 + v3v14 * v8 - v0v11 * v14 - v2v15 * v8 + v0 * v10v15]
                           r7 == [r6 EXCEPT ![7] = v3v12 * v6 - v2v12 * v7 - v3v14 * v4 + v0 * v7v14 + v2v15 * v4 - v0 * v6v15]
                           r8 == [r7 EXCEPT ![8] = -v3 * v6v8 + v2 * v7v8 + v3 * v4v10 - v0 * v7v10 - v2 * v4v11 + v0 * v6v11]
                           r9 == [r8 EXCEPT ![9] = -v7v9 * v12 + v5v11 * v12 + v7v8 * v13 - v4v11 * v13 - v5v8 * v15 + v4v9 * v15]
                           r10 == [r9 EXCEPT ![10] = v3v12 * v9 - v1v12 * v11 - v3v13 * v8 + v0v11 * v13 + v1v8 * v15 - v0v9 * v15]
                           r11 == [r10 EXCEPT ![11] = -v3v12 * v5 + v1v12 * v7 + v3v13 * v4 - v0v13 * v7 - v1v4 * v15 + v0v5 * v15]
                           r12 == [r11 EXCEPT ![12] = v3 * v5v8 - v1 * v7v8 - v3 * v4v9 + v0 * v7v9 + v1v4 * v11 - v0 * v5v11]
                           r13 == [r12 EXCEPT ![13] = v6v9 * v12 - v5v10 * v12 - v6v8 * v13 + v4v10 * v13 + v5v8 * v14 - v4v9 * v14]
                           r14 == [r13 EXCEPT ![14] = -v2v12 * v9 + v1v12 * v10 + v2v13 * v8 - v0v13 * v10 - v1v8 * v14 + v0v9 * v14]
                           r15 == [r14 EXCEPT ![15] = v2v12 * v5 - v1v12 * v6 - v2v13 * v4 + v0v13 * v6 + v1v4 * v14 - v0v5 * v14]
                           r16 == [r15 EXCEPT ![16] = -v2 * v5v8 + v1 * v6v8 + v2 * v4v9 - v0 * v6v9 - v1v4 * v10 + v0 * v5v10]
                       IN  MulWith("Mat4", r16, Recip(det)))

\* Mat2.InverseOf, Mat3.InverseOf, Mat4.InverseOf
InverseOf(type, m1, m2) ==
    CASE type = "Mat2" ->
             (LET det == Det("Mat2", m2)
              IN  IF FloatEqual(det, 0)
                  THEN <<0, 0, 0, 0>>
                  ELSE LET over == Recip(det)
                       IN  <<m2[4] * over,
                             -m2[2] * over,
                             -m2[3] * over,
                             m2[1] * over>>)
      [] type = "Mat3" ->
             (LET det == Det("Mat3", m2)
              IN  IF FloatEqual(det, 0)
                  THEN <<0, 0, 0, 0, 0, 0, 0, 0, 0>>
                  ELSE LET v0 == m2[1]
                           v1 == m2[2]
                           v2 == m2[3]
                           v3 == m2[4]
                           v4 == m2[5]
                           v5 == m2[6]
                           v6 == m2[7]
                           v7 == m2[8]
                           v8 == m2[9]
                           r1 == [m1 EXCEPT ![1] = v4 * v8 - v5 * v7]
                           r2 == [r1 EXCEPT ![2] = v2 * v7 - v1 * v8]
                           r3 == [r2 EXCEPT ![3] = v1 * v5 - v2 * v4]
                           r4 == [r3 EXCEPT ![4] = v5 * v6 - v3 * v8]
                           r5 == [r4 EXCEPT ![5] = v0 * v8 - v2 * v6]
                           r6 == [r5 EXCEPT ![6] = v2 * v3 - v0 * v5]
                           r7 == [r6 EXCEPT ![7] = v3 * v7 - v4 * v6]
                           r8 == [r7 EXCEPT ![8] = v1 * v6 - v0 * v7]
                           r9 == [r8 EXCEPT ![9] = v0 * v4 - v1 * v3]
                       IN  MulWith("Mat3", r9, Recip(det)))
      [] type = "Mat4" ->
             (LET det == Det("Mat4", m2)
              IN  IF FloatEqual(det, 0)
                  THEN <<0, 0, 0, 0, 0, 0, 0, 0, 0, 0, 0, 0, 0, 0, 0, 0>>
                  ELSE LET v0 == m2[1]
                           v1 == m2[2]
                           v2 == m2[3]
                           v3 == m2[4]
                           v4 == m2[5]
                           v5 == m2[6]
                           v6 == m2[7]
                           v7 == m2[8]
                           v8 == m2[9]
                           v9 == m2[10]
                           v10 == m2[11]
                           v11 == m2[12]
                           v12 == m2[13]
                           v13 == m2[14]
                           v14 == m2[15]
                           v15 == m2[16]
                           v7v10 == v7 * v10
                           v6v11 == v6 * v11
                           v7v9 == v7 * v9
                           v5v11 == v5 * v11
                           v6v9 == v6 * v9
                           v5v10 == v5 * v10
                           v1v4 == v1 * v4
                           v4v9 == v4 * v9
                           v6v8 == v6 * v8
                           v5v8 == v5 * v8
                           v7v8 == v7 * v8
                           v1v12 == v1 * v12
                           v2v12 == v2 * v12
                           v2v13 == v2 * v13
                           v2v15 == v2 * v15
                           v3v12 == v3 * v12
                           v3v13 == v3 * v13
                           v3v14 == v3 * v14
                           v4v10 == v4 * v10
                           v4v11 == v4 * v11
                           v10v15 == v10 * v15
                           v7v14 == v7 * v14
                           v6v15 == v6 * v15
                           v0v11 == v0 * v11
                           v1v8 == v1 * v8
                           v0v9 == v0 * v9
                           v0v5 == v0 * v5
                           v0v13 == v0 * v13
                           r1 == [m1 EXCEPT ![1] = -v7v10 * v13 + v6v11 * v13 + v7v9 * v14 - v5v11 * v14 - v6v9 * v15 + v5v10 * v15]
                           r2 == [r1 EXCEPT ![2] = v3v13 * v10 - v2v13 * v11 - v3v14 * v9 + v1 * v11 * v14 + v2v15 * v9 - v1 * v10v15]
                           r3 == [r2 EXCEPT ![3] = -v3v13 * v6 + v2v13 * v7 + v3v14 * v5 - v1 * v7v14 - v2v15 * v5 + v1 * v6v15]
                           r4 == [r3 EXCEPT ![4] = v3 * v6v9 - v2 * v7v9 - v3 * v5v10 + v1 * v7v10 + v2 * v5v11 - v1 * v6v11]
                           r5 == [r4 EXCEPT ![5] = v7v10 * v12 - v6v11 * v12 - v7v8 * v14 + v4v11 * v14 + v6v8 * v15 - v4v10 * v15]
                           r6 == [r5 EXCEPT ![6] = -v3v12 * v10 + v2v12 * v11 + v3v14 * v8 - v0v11 * v14 - v2v15 * v8 + v0 * v10v15]
                           r7 == [r6 EXCEPT ![7] = v3v12 * v6 - v2v12 * v7 - v3v14 * v4 + v0 * v7v14 + v2v15 * v4 - v0 * v6v15]
                           r8 == [r7 EXCEPT ![8] = -v3 * v6v8 + v2 * v7v8 + v3 * v4v10 - v0 * v7v10 - v2 * v4v11 + v0 * v6v11]
                           r9 == [r8 EXCEPT ![9] = -v7v9 * v12 + v5v11 * v12 + v7v8 * v13 - v4v11 * v13 - v5v8 * v15 + v4v9 * v15]
                           r10 == [r9 EXCEPT ![10] = v3v12 * v9 - v1v12 * v11 - v3v13 * v8 + v0v11 * v13 + v1v8 * v15 - v0v9 * v15]
                           r11 == [r10 EXCEPT ![11] = -v3v12 * v5 + v1v12 * v7 + v3v13 * v4 - v0v13 * v7 - v1v4 * v15 + v0v5 * v15]
                           r12 == [r11 EXCEPT ![12] = v3 * v5v8 - v1 * v7v8 - v3 * v4v9 + v0 * v7v9 + v1v4 * v11 - v0 * v5v11]
                           r13 == [r12 EXCEPT ![13] = v6v9 * v12 - v5v10 * v12 - v6v8 * v13 + v4v10 * v13 + v5v8 * v14 - v4v9 * v14]
                           r14 == [r13 EXCEPT ![14] = -v2v12 * v9 + v1v12 * v10 + v2v13 * v8 - v0v13 * v10 - v1v8 * v14 + v0v9 * v14]
                           r15 == [r14 EXCEPT ![15] = v2v12 * v5 - v1v12 * v6 - v2v13 * v4 + v0v13 * v6 + v1v4 * v14 - v0v5 * v14]
                           r16 == [r15 EXCEPT ![16] = -v2 * v5v8 + v1 * v6v8 + v2 * v4v9 - v0 * v6v9 - v1v4 * v10 + v0 * v5v10]
                       IN  MulWith("Mat4", r16, Recip(det)))

(***************************************************************************)
(* A program that holds one matrix and calls the matrix library on it.     *)
(***************************************************************************)

\* The variables of the scene, which the matrix library never touches.
nodeVars == <<parent, children, position, rotation, scale, transformValid,
              transform, worldTransform, crashed>>

\* What a call of the matrix library leaves in `last`: the method, the type
\* of its receiver, the receiver before the call, the argument, what the
\* call returned (<<>> when it returns nothing), the matrix the program
\* holds after the call and the number of calls so far that wrote it.
MathCall(op, type, recv, arg, ret, m, writes) ==
    [op |-> op, type |-> type, recv |-> recv, arg |-> arg, ret |-> ret,
     m |-> m, writes |-> writes]

\* The call op on the matrix held, which is of the type: a method with a
\* pointer receiver leaves its result in the receiver (ret is <<>>), any
\* other leaves the receiver alone. stores is 1 when the call writes the
\* matrix held, 0 otherwise.
MathStep(op, type, arg, ret, m, stores) ==
    /\ last.type = type
    /\ last' = MathCall(op, type, last.m, arg, ret, m, last.writes + stores)
    /\ UNCHANGED nodeVars

\* m = m.Mul2(m2), m.Mul3(m2), ...: the product is stored in the matrix held.
ProductCall(type, m2) ==
    MathStep("Product", type, m2, ProductOf(type, last.m, m2),
             ProductOf(type, last.m, m2), 1)

\* m.Det(): the determinant is returned.
DetCall(type) == MathStep("Det", type, Nil, Det(type, last.m), last.m, 0)

\* m.Inverse(): the inverse is returned.
InverseCall(type) == MathStep("Inverse", type, Nil, Inverse(type, last.m), last.m, 0)

\* An Invert that leaves the receiver alone.
InvertCallKeepsReceiver(type) == MathStep("Invert", type, Nil, <<>>, last.m, 1)

\* m.Invert(): the receiver is inverted in place.
InvertCall(type) == MathStep("Invert", type, Nil, <<>>, Invert(type, last.m), 1)

\* m.InverseOf(&m2): the receiver is set to the inverse of m2.
InverseOfCall(type, m2) ==
    MathStep("InverseOf", type, m2, <<>>, InverseOf(type, last.m, m2), 1)

\* m.Index(row, col), m.At(row, col), m.Row(row), m.Col(col): the value is
\* returned. m.Set(row, col, value), m.SetRow(row, &v), m.SetCol(col, &v):
\* the receiver is written.
IndexCall(type, row, col) ==
    MathStep("Index", type, <<row, col>>, Index(type, row, col), last.m, 0)

AtCall(type, row, col) ==
    MathStep("At", type, <<row, col>>, At(type, last.m, row, col), last.m, 0)

SetCall(type, row, col, value) ==
    MathStep("Set", type, <<row, col, value>>, <<>>,
             Set(type, last.m, row, col, value), 1)

RowCall(type, row) == MathStep("Row", type, row, Row(type, last.m, row), last.m, 0)

ColCall(type, col) == MathStep("Col", type, col, Col(type, last.m, col), last.m, 0)

SetRowCall(type, row, v) ==
    MathStep("SetRow", type, <<row, v>>, <<>>, SetRow(type, last.m, row, v), 1)

SetColCall(type, col, v) ==
    MathStep("SetCol", type, <<col, v>>, <<>>, SetCol(type, last.m, col, v), 1)

\* The most calls that store a matrix in the one held.
MaxWrites == 3

\* The matrices a product is taken with: shears, a reflection, a projection
\* (whose determinant is zero) and, for the affine types, translations.
\* Their determinants are 1, -1 or 0, so every matrix held has an integer
\* inverse or none.
InputsOf(type) ==
    CASE type = "Mat2" ->
             {<<1, 0,  1, 1>>, <<1, 1,  0, 1>>, <<-1, 0,  0, 1>>, <<0, 0,  0, 1>>}
      [] type = "Mat3" ->
             {<<1, 0, 0,  1, 1, 0,  0, 0, 1>>, <<1, 0, 0,  0, 1, 0,  0, 1, 1>>,
              <<1, 0, 1,  0, 1, 0,  0, 0, 1>>, <<-1, 0, 0,  0, 1, 0,  0, 0, 1>>,
              <<0, 0, 0,  0, 1, 0,  0, 0, 1>>}
      [] type = "Mat4" ->
             {<<1, 0, 0, 0,  1, 1, 0, 0,  0, 0, 1, 0,  0, 0, 0, 1>>,
              <<1, 0, 0, 0,  0, 1, 0, 0,  0, 1, 1, 0,  0, 0, 0, 1>>,
              <<1, 0, 0, 0,  0, 1, 0, 0,  0, 0, 1, 0,  0, 0, 1, 1>>,
              <<1, 0, 0, 1,  0, 1, 0, 0,  0, 0, 1, 0,  0, 0, 0, 1>>,
              <<-1, 0, 0, 0,  0, 1, 0, 0,  0, 0, 1, 0,  0, 0, 0, 1>>,
              <<0, 0, 0, 0,  0, 1, 0, 0,  0, 0, 1, 0,  0, 0, 0, 1>>}
      [] type = "Mat3x4" ->
             {<<1, 0, 0,  1, 1, 0,  0, 0, 1,  0, 0, 0>>,
              <<1, 0, 0,  0, 1, 0,  0, 1, 1,  0, 0, 0>>,
              <<1, 0, 1,  0, 1, 0,  0, 0, 1,  0, 0, 0>>,
              <<-1, 0, 0,  0, 1, 0,  0, 0, 1,  0, 0, 0>>,
              <<0, 0, 0,  0, 1, 0,  0, 0, 1,  0, 0, 0>>,
              <<1, 0, 0,  0, 1, 0,  0, 0, 1,  1, 0, 0>>,
              <<1, 0, 0,  0, 1, 0,  0, 0, 1,  0, 0, 1>>}
      [] type = "Mat2x3" ->
             {<<1, 0,  1, 1,  0, 0>>, <<1, 1,  0, 1,  0, 0>>,
              <<-1, 0,  0, 1,  0, 0>>, <<0, 0,  0, 1,  0, 0>>,
              <<1, 0,  0, 1,  1, 0>>, <<1, 0,  0, 1,  0, 1>>}

\* The program starts with the matrix start[type] of one of the types.
InitMath(start) ==
    /\ parent = <<>>
    /\ children = <<>>
    /\ position = <<>>
    /\ rotation = <<>>
    /\ scale = <<>>
    /\ transformValid = <<>>
    /\ transform = <<>>
    /\ worldTransform = <<>>
    /\ crashed = FALSE
    /\ \E type \in MatTypes :
          last = MathCall("Literal", type, <<>>, Nil, start[type], start[type], 0)

InitMatrix == InitMath([type \in MatTypes |-> IdentOf(type)])

\* The right operand of a product is one of the inputs, the matrix held or
\* the one held before the last call.
NextMatrix ==
    \/ \E type \in MatTypes :
          \E m2 \in InputsOf(type) \cup {last.m, last.recv} :
              /\ last.writes < MaxWrites
              /\ Len(m2) = Len(last.m)
              /\ ProductCall(type, m2)
    \/ \E type \in MatTypes : DetCall(type)
    \/ \E type \in MatTypes : InverseCall(type)
    \/ \E type \in SquareTypes :
          /\ last.writes < MaxWrites
          /\ InvertCall(type)
    \/ \E type \in SquareTypes :
          \E m2 \in InputsOf(type) :
              /\ last.writes < MaxWrites
              /\ InverseOfCall(type, m2)

SpecMatrix == InitMatrix /\ [][NextMatrix]_vars

\* The determinant of the n x n column-major matrix m by its definition, the
\* expansion along the first row.
RECURSIVE Determinant(_, _)
Determinant(m, n) ==
    IF n = 1
    THEN m[1]
    ELSE LET Minor(c) ==
                 [k \in 1..((n - 1) * (n - 1)) |->
                     LET col == (k - 1) \div (n - 1)
                         row == (k - 1) % (n - 1)
                         from == IF col < c THEN col ELSE col + 1
                     IN  m[from * n + row + 2]]
             Term(c) ==
                 IF c < n
                 THEN (IF c % 2 = 0 THEN 1 ELSE -1) * m[c * n + 1]
                          * Determinant(Minor(c), n - 1)
                 ELSE 0
         IN  Term(0) + Term(1) + Term(2) + Term(3)

\* The determinant of a matrix of a type by its definition: that of an
\* affine matrix is the determinant of its linear part, the columns before
\* the last. The all-zero matrix of a type.
DeterminantOf(type, m) ==
    CASE type \in SquareTypes -> Determinant(m, ColLen(type))
      [] type = "Mat3x4" -> Determinant(SubSeq(m, 1, 9), 3)
      [] type = "Mat2x3" -> Determinant(SubSeq(m, 1, 4), 2)

ZeroOf(type) == [k \in 1..(RowLen(type) * ColLen(type)) |-> 0]

(***************************************************************************)
(* C14: the inverse is a two-sided inverse. For an invertible Mat2, Mat3   *)
(* or Mat4 M, the product M * M.Inverse() taken with Mul2, Mul3 or Mul4 is *)
(* the identity of that dimension, and so is M.Inverse() * M.              *)
(***************************************************************************)

C14_InverseIsTwoSided ==
    (/\ last.op = "Inverse"
     /\ last.type \in SquareTypes
     /\ DeterminantOf(last.type, last.recv) # 0) =>
        /\ ProductOf(last.type, last.recv, last.ret) = IdentOf(last.type)
        /\ ProductOf(last.type, last.ret, last.recv) = IdentOf(last.type)

\* Inverse has been called on a 4 x 4 matrix of determinant -1, the product
\* of a reflection and two shears, and has returned another matrix.
C14_Witness ==
    /\ last.op = "Inverse"
    /\ last.type = "Mat4"
    /\ DeterminantOf("Mat4", last.recv) = -1
    /\ last.writes = 3
    /\ last.ret # last.recv

(***************************************************************************)
(* C15: inverting a matrix whose determinant is zero never fails. Inverse  *)
(* of a Mat2, Mat3, Mat4, Mat3x4 or Mat2x3 returns the all-zero matrix,    *)
(* and Invert and InverseOf leave the all-zero matrix in the destination;  *)
(* the call completes.                                                     *)
(***************************************************************************)

C15_SingularInverseIsZero ==
    /\ (last.op = "Inverse" /\ DeterminantOf(last.type, last.recv) = 0) =>
           /\ last.ret = ZeroOf(last.type)
           /\ last.m = last.recv
    /\ (last.op = "Invert" /\ DeterminantOf(last.type, last.recv) = 0) =>
           last.m = ZeroOf(last.type)
    /\ (last.op = "InverseOf" /\ DeterminantOf(last.type, last.arg) = 0) =>
           last.m = ZeroOf(last.type)

\* Invert has been called on a 4 x 4 matrix that is the product of a shear
\* and a projection, and has left the all-zero matrix in it.
C15_Witness ==
    /\ last.op = "Invert"
    /\ last.type = "Mat4"
    /\ last.recv = <<0, 0, 0, 0,  1, 1, 0, 0,  0, 0, 1, 0,  0, 0, 0, 1>>
    /\ last.m = ZeroMat4

(***************************************************************************)
(* C16: the inverse of a compact affine matrix is the inverse of the full  *)
(* matrix it stands for. For a Mat3x4 A whose determinant is not zero,     *)
(* A.Inverse() embedded with the last row [0 0 0 1] is the Mat4 inverse of *)
(* the embedding of A and A.Mul3x4(A.Inverse()) is the compact identity;   *)
(* so for a Mat2x3 with the last row [0 0 1], Mat3 and Mul2x3.             *)
(***************************************************************************)

C16_AffineInverseIsFullInverse ==
    /\ (/\ last.op = "Inverse"
        /\ last.type = "Mat3x4"
        /\ DeterminantOf("Mat3x4", last.recv) # 0) =>
           /\ Mat3x4Mat4(last.ret) = Inverse("Mat4", Mat3x4Mat4(last.recv))
           /\ Mul3x4(last.recv, last.ret) = IdentOf("Mat3x4")
    /\ (/\ last.op = "Inverse"
        /\ last.type = "Mat2x3"
        /\ DeterminantOf("Mat2x3", last.recv) # 0) =>
           /\ Mat2x3Mat3(last.ret) = Inverse("Mat3", Mat2x3Mat3(last.recv))
           /\ Mul2x3(last.recv, last.ret) = IdentOf("Mat2x3")

(***************************************************************************)
(* C17: the product and the determinant of the compact affine types agree  *)
(* with the full-size operations on the embeddings. For Mat3x4 A and B,    *)
(* (A.Mul3x4(B)).Mat4() = A.Mat4().Mul4(B.Mat4()) and A.Det() =            *)
(* A.Mat4().Det(); for Mat2x3 A and B, (A.Mul2x3(B)).Mat3() =              *)
(* A.Mat3().Mul3(B.Mat3()) and A.Det() = A.Mat3().Det().                   *)
(***************************************************************************)

C17_AffineAgreesWithEmbedding ==
    /\ (last.op = "Product" /\ last.type = "Mat3x4") =>
           Mat3x4Mat4(last.ret) = Mul4(Mat3x4Mat4(last.recv), Mat3x4Mat4(last.arg))
    /\ (last.op = "Det" /\ last.type = "Mat3x4") =>
           last.ret = Det("Mat4", Mat3x4Mat4(last.recv))
    /\ (last.op = "Product" /\ last.type = "Mat2x3") =>
           Mat2x3Mat3(last.ret) = Mul3(Mat2x3Mat3(last.recv), Mat2x3Mat3(last.arg))
    /\ (last.op = "Det" /\ last.type = "Mat2x3") =>
           last.ret = Det("Mat3", Mat2x3Mat3(last.recv))

\* Mul2x3 has multiplied a matrix that translates by one that shears: the
\* receiver's translation is in the product.
C17_Witness ==
    /\ last.op = "Product"
    /\ last.type = "Mat2x3"
    /\ last.recv = <<-1, 0,  0, 1,  1, 0>>
    /\ last.arg = <<1, 0,  1, 1,  0, 0>>
    /\ last.ret = <<-1, 0,  -1, 1,  1, 0>>

(***************************************************************************)
(* The element accessors of the five matrix types.                         *)
(***************************************************************************)

\* The most calls that write elements of the matrix held.
MaxSets == 1

\* The program starts with a matrix literal whose elements all differ:
\* 10, 20, ... in the order of the array.
LayoutInput(type) == [k \in 1..(RowLen(type) * ColLen(type)) |-> 10 * k]

\* The value written by Set and the vector written by SetRow and SetCol.
SetInputs == {7}

VecInput(n) == SubSeq(<<1, 2, 3, 4>>, 1, n)

InitLayout == InitMath([type \in MatTypes |-> LayoutInput(type)])

NextLayout ==
    \/ \E type \in MatTypes, row \in 0..3, col \in 0..3 :
          /\ row < ColLen(type) /\ col < RowLen(type)
          /\ IndexCall(type, row, col)
    \/ \E type \in MatTypes, row \in 0..3, col \in 0..3 :
          /\ row < ColLen(type) /\ col < RowLen(type)
          /\ AtCall(type, row, col)
    \/ \E type \in MatTypes, row \in 0..3, col \in 0..3, value \in SetInputs :
          /\ row < ColLen(type) /\ col < RowLen(type)
          /\ last.writes < MaxSets
          /\ SetCall(type, row, col, value)
    \/ \E type \in MatTypes, row \in 0..3 :
          /\ row < ColLen(type)
          /\ RowCall(type, row)
    \/ \E type \in MatTypes, col \in 0..3 :
          /\ col < RowLen(type)
          /\ ColCall(type, col)
    \/ \E type \in MatTypes, row \in 0..3 :
          /\ row < ColLen(type)
          /\ last.writes < MaxSets
          /\ SetRowCall(type, row, VecInput(RowLen(type)))
    \/ \E type \in MatTypes, col \in 0..3 :
          /\ col < RowLen(type)
          /\ last.writes < MaxSets
          /\ SetColCall(type, col, VecInput(ColLen(type)))

SpecLayout == InitLayout /\ [][NextLayout]_vars

\* The place of the element (row, col) in the array of a column-major
\* matrix of a type, counted from 0, and the element of m there.
PlaceOf(type, row, col) == col * ColLen(type) + row

ElementOf(type, m, row, col) == m[PlaceOf(type, row, col) + 1]

\* m with the elements of row r (of column c) replaced by those of v.
WithRow(type, m, r, v) ==
    [k \in 1..Len(m) |->
        IF (k - 1) % ColLen(type) = r THEN v[((k - 1) \div ColLen(type)) + 1] ELSE m[k]]

WithCol(type, m, c, v) ==
    [k \in 1..Len(m) |->
        IF (k - 1) \div ColLen(type) = c THEN v[((k - 1) % ColLen(type)) + 1] ELSE m[k]]

(***************************************************************************)
(* C18: the matrices are column major. For Mat2, Mat3, Mat4, Mat3x4 and    *)
(* Mat2x3 and every valid (row, col): Index(row, col) is col*rows + row;   *)
(* At(row, col) reads the element there; Set(row, col, v) writes that      *)
(* element and no other; Row(r)[c] = Col(c)[r] = At(r, c); SetRow and      *)
(* SetCol write exactly the elements of that row or column.                *)
(***************************************************************************)

C18_ColumnMajorLayout ==
    /\ last.op = "Index" =>
           last.ret = last.arg[2] * ColLen(last.type) + last.arg[1]
    /\ last.op = "At" =>
           /\ last.ret = ElementOf(last.type, last.recv, last.arg[1], last.arg[2])
           /\ last.m = last.recv
    /\ last.op = "Set" =>
           last.m = [k \in 1..Len(last.recv) |->
                        IF k = PlaceOf(last.type, last.arg[1], last.arg[2]) + 1
                        THEN last.arg[3]
                        ELSE last.recv[k]]
    /\ last.op = "Row" =>
           /\ Len(last.ret) = RowLen(last.type)
           /\ \A c \in 0..(RowLen(last.type) - 1) :
                 last.ret[c + 1] = ElementOf(last.type, last.recv, last.arg, c)
    /\ last.op = "Col" =>
           /\ Len(last.ret) = ColLen(last.type)
           /\ \A r \in 0..(ColLen(last.type) - 1) :
                 last.ret[r + 1] = ElementOf(last.type, last.recv, r, last.arg)
    /\ last.op = "SetRow" =>
           last.m = WithRow(last.type, last.recv, last.arg[1], last.arg[2])
    /\ last.op = "SetCol" =>
           last.m = WithCol(last.type, last.recv, last.arg[1], last.arg[2])

\* SetRow has written the row 1 of the 3 x 4 matrix 10, 20, ... 120: the
\* elements 2, 5, 8 and 11 of the array.
C18_Witness ==
    /\ last.op = "SetRow"
    /\ last.type = "Mat3x4"
    /\ last.arg = <<1, <<1, 2, 3, 4>>>>
    /\ last.m = <<10, 1, 30,  40, 2, 60,  70, 3, 90,  100, 4, 120>>

(***************************************************************************)
(* math: AnglesToQuat, the quaternion of three Euler angles.               *)
(***************************************************************************)

\* The RotationOrder constants, numbered by iota.
XYX == 0
XYZ == 1
XZX == 2
XZY == 3
YXY == 4
YXZ == 5
YZY == 6
YZX == 7
ZYZ == 8
ZYX == 9
ZXZ == 10
ZXY == 11

\* Quaternion.Mul: q1 * q2.
QuatMul(q1, q2) ==
    LET c == Vec3Cross(q1.V, q2.V)
        m1 == Vec3Mul(q2.V, q1.W)
        m2 == Vec3Mul(q1.V, q2.W)
        a1 == <<c[1] + m1[1], c[2] + m1[2], c[3] + m1[3]>>
    IN  Quat(q1.W * q2.W - Vec3Dot(q1.V, q2.V),
             <<a1[1] + m2[1], a1[2] + m2[2], a1[3] + m2[3]>>)

\* The axes that the name of an order spells.
AxisNamed(letter) ==
    CASE letter = "X" -> <<1, 0, 0>>
      [] letter = "Y" -> <<0, 1, 0>>
      [] letter = "Z" -> <<0, 0, 1>>

OrderName(order) ==
    CASE order = XYX -> <<"X", "Y", "X">>
      [] order = XYZ -> <<"X", "Y", "Z">>
      [] order = XZX -> <<"X", "Z", "X">>
      [] order = XZY -> <<"X", "Z", "Y">>
      [] order = YXY -> <<"Y", "X", "Y">>
      [] order = YXZ -> <<"Y", "X", "Z">>
      [] order = YZY -> <<"Y", "Z", "Y">>
      [] order = YZX -> <<"Y", "Z", "X">>
      [] order = ZYZ -> <<"Z", "Y", "Z">>
      [] order = ZYX -> <<"Z", "Y", "X">>
      [] order = ZXZ -> <<"Z", "X", "Z">>
      [] order = ZXY -> <<"Z", "X", "Y">>

\* The switch of AnglesToQuat without the label XZX.
AnglesToQuatCasesWithoutXZX == {ZYX, ZYZ, ZXY, ZXZ, YXZ, YXY, YZX, YZY, XYZ, XYX, XZY}

\* AnglesToQuat: the labels of its switch, in their order.
AnglesToQuatCases == {ZYX, ZYZ, ZXY, ZXZ, YXZ, YXY, YZX, YZY, XYZ, XYX, XZY, XZX}

\* An AnglesToQuat that takes angle3 about the first axis of the order and
\* angle1 about the last.
AnglesToQuatAnglesReversed(angle1, angle2, angle3, order) ==
    QuatMul(QuatMul(QuatRotate(angle3, AxisNamed(OrderName(order)[1])),
                    QuatRotate(angle2, AxisNamed(OrderName(order)[2]))),
            QuatRotate(angle1, AxisNamed(OrderName(order)[3])))

\* AnglesToQuat for an order that is one of the labels of its switch; for any
\* other order the default of the switch panics.
AnglesToQuat(angle1, angle2, angle3, order) ==
    LET s0 == SinHalf(angle1)
        c0 == CosHalf(angle1)
        s1 == SinHalf(angle2)
        c1 == CosHalf(angle2)
        s2 == SinHalf(angle3)
        c2 == CosHalf(angle3)
    IN  CASE order = ZYX ->
                 Quat(c0 * c1 * c2 + s0 * s1 * s2,
                      <<c0 * c1 * s2 - s0 * s1 * c2,
                        c0 * s1 * c2 + s0 * c1 * s2,
                        s0 * c1 * c2 - c0 * s1 * s2>>)
          [] order = ZYZ ->
                 Quat(c0 * c1 * c2 - s0 * c1 * s2,
                      <<c0 * s1 * s2 - s0 * s1 * c2,
                        c0 * s1 * c2 + s0 * s1 * s2,
                        s0 * c1 * c2 + c0 * c1 * s2>>)
          [] order = ZXY ->
                 Quat(c0 * c1 * c2 - s0 * s1 * s2,
                      <<c0 * s1 * c2 - s0 * c1 * s2,
                        c0 * c1 * s2 + s0 * s1 * c2,
                        c0 * s1 * s2 + s0 * c1 * c2>>)
          [] order = ZXZ ->
                 Quat(c0 * c1 * c2 - s0 * c1 * s2,
                      <<c0 * s1 * c2 + s0 * s1 * s2,
                        s0 * s1 * c2 - c0 * s1 * s2,
                        c0 * c1 * s2 + s0 * c1 * c2>>)
          [] order = YXZ ->
                 Quat(c0 * c1 * c2 + s0 * s1 * s2,
                      <<c0 * s1 * c2 + s0 * c1 * s2,
                        s0 * c1 * c2 - c0 * s1 * s2,
                        c0 * c1 * s2 - s0 * s1 * c2>>)
          [] order = YXY ->
                 Quat(c0 * c1 * c2 - s0 * c1 * s2,
                      <<c0 * s1 * c2 + s0 * s1 * s2,
                        s0 * c1 * c2 + c0 * c1 * s2,
                        c0 * s1 * s2 - s0 * s1 * c2>>)
          [] order = YZX ->
                 Quat(c0 * c1 * c2 - s0 * s1 * s2,
                      <<c0 * c1 * s2 + s0 * s1 * c2,
                        c0 * s1 * s2 + s0 * c1 * c2,
                        c0 * s1 * c2 - s0 * c1 * s2>>)
          [] order = YZY ->
                 Quat(c0 * c1 * c2 - s0 * c1 * s2,
                      <<s0 * s1 * c2 - c0 * s1 * s2,
                        c0 * c1 * s2 + s0 * c1 * c2,
                        c0 * s1 * c2 + s0 * s1 * s2>>)
          [] order = XYZ ->
                 Quat(c0 * c1 * c2 - s0 * s1 * s2,
                      <<c0 * s1 * s2 + s0 * c1 * c2,
                        c0 * s1 * c2 - s0 * c1 * s2,
                        c0 * c1 * s2 + s0 * s1 * c2>>)
          [] order = XYX ->
                 Quat(c0 * c1 * c2 - s0 * c1 * s2,
                      <<c0 * c1 * s2 + s0 * c1 * c2,
                        c0 * s1 * c2 + s0 * s1 * s2,
                        s0 * s1 * c2 - c0 * s1 * s2>>)
          [] order = XZY ->
                 Quat(c0 * c1 * c2 + s0 * s1 * s2,
                      <<s0 * c1 * c2 - c0 * s1 * s2,
                        c0 * c1 * s2 - s0 * s1 * c2,
                        c0 * s1 * c2 + s0 * c1 * s2>>)
          [] order = XZX ->
                 Quat(c0 * c1 * c2 - s0 * c1 * s2,
                      <<c0 * c1 * s2 + s0 * c1 * c2,
                        c0 * s1 * s2 - s0 * s1 * c2,
                        c0 * s1 * c2 + s0 * s1 * s2>>)

\* A call of AnglesToQuat: the quaternion is returned, or the call panics
\* in the default of the switch and the program stops.
AnglesToQuatCall(angle1, angle2, angle3, order) ==
    /\ ~crashed
    /\ IF order \in AnglesToQuatCases
       THEN /\ last' = MathCall("AnglesToQuat", "Quaternion", <<>>,
                                <<angle1, angle2, angle3, order>>,
                                AnglesToQuat(angle1, angle2, angle3, order), <<>>, 0)
            /\ crashed' = FALSE
       ELSE /\ last' = MathCall("AnglesToQuat", "Quaternion", <<>>,
                                <<angle1, angle2, angle3, order>>, <<>>, <<>>, 0)
            /\ crashed' = TRUE
    /\ UNCHANGED <<parent, children, position, rotation, scale, transformValid,
                   transform, worldTransform>>

\* The largest angle, in half turns.
MaxAngle == 3

InitAngles ==
    /\ parent = <<>>
    /\ children = <<>>
    /\ position = <<>>
    /\ rotation = <<>>
    /\ scale = <<>>
    /\ transformValid = <<>>
    /\ transform = <<>>
    /\ worldTransform = <<>>
    /\ crashed = FALSE
    /\ last = MathCall("QuatIdent", "Quaternion", <<>>, Nil, QuatIdent, <<>>, 0)

\* The orders are the constants, one value below and two above them.
NextAngles ==
    \E angle1 \in 0..MaxAngle, angle2 \in 0..MaxAngle, angle3 \in 0..MaxAngle,
       order \in (XYX - 1)..(ZXY + 2) :
        AnglesToQuatCall(angle1, angle2, angle3, order)

SpecAngles == InitAngles /\ [][NextAngles]_vars

\* The twelve constants of RotationOrder.
RotationOrders == {XYX, XYZ, XZX, XZY, YXY, YXZ, YZY, YZX, ZYZ, ZYX, ZXZ, ZXY}

(***************************************************************************)
(* C19: AnglesToQuat fails hard on a bad order and only then. For every    *)
(* value of RotationOrder outside the twelve constants XYX..ZXY the call   *)
(* panics; for each of the twelve it returns a quaternion and does not     *)
(* panic, whatever the angles.                                             *)
(***************************************************************************)

C19_PanicsExactlyOnBadOrder ==
    last.op = "AnglesToQuat" =>
        /\ crashed <=> last.arg[4] \notin RotationOrders
        /\ ~crashed =>
               /\ last.ret.W \in Int
               /\ \A i \in 1..3 : last.ret.V[i] \in Int

\* AnglesToQuat has been called with the order 12, the first value above
\* the constants, and has panicked.
C19_Witness ==
    /\ last.op = "AnglesToQuat"
    /\ last.arg[4] = 12
    /\ crashed

(***************************************************************************)
(* C20: for each of the twelve rotation orders ABC, AnglesToQuat(a1, a2,   *)
(* a3, ABC) takes a1 about the axis A, a2 about B and a3 about C: the      *)
(* result is the Hamilton product QuatRotate(a1, A) * QuatRotate(a2, B) *  *)
(* QuatRotate(a3, C), has unit norm, and is the identity quaternion when   *)
(* the three angles are 0.                                                 *)
(***************************************************************************)

C20_AnglesToQuatIsProductOfRotations ==
    (last.op = "AnglesToQuat" /\ last.arg[4] \in RotationOrders /\ ~crashed) =>
        LET a1 == last.arg[1]
            a2 == last.arg[2]
            a3 == last.arg[3]
            axes == OrderName(last.arg[4])
            qa == QuatRotate(a1, AxisNamed(axes[1]))
            qb == QuatRotate(a2, AxisNamed(axes[2]))
            qc == QuatRotate(a3, AxisNamed(axes[3]))
            q == last.ret
        IN  /\ q = Hamilton(Hamilton(qa, qb), qc)
            /\ q = QuatMul(QuatMul(qa, qb), qc)
            /\ q.W * q.W + q.V[1] * q.V[1] + q.V[2] * q.V[2] + q.V[3] * q.V[3] = 1
            /\ (a1 = 0 /\ a2 = 0 /\ a3 = 0) => q = QuatIdent

\* AnglesToQuat has been called with the order YZX and a half turn about
\* each axis: j * k * i = -1.
C20_Witness ==
    /\ last.op = "AnglesToQuat"
    /\ last.arg = <<1, 1, 1, YZX>>
    /\ last.ret = Quat(-1, <<0, 0, 0>>)

(***************************************************************************)
(* Two nodes, n and p, under every TRS mutator, AddChild and propagation   *)
(* passes.  Each component of a node is written from the value NewNode     *)
(* gave it, and at most MaxEdits components are written, which keeps the   *)
(* reachable values few.                                                   *)
(***************************************************************************)
FrameNodes == {"n", "p"}

InitFrame == InitNodes(FrameNodes, "p")

\* The components that differ from what NewNode gave them.
Edits ==
    Cardinality({m \in Live : position[m] # NewNodeFields.position})
    + Cardinality({m \in Live : rotation[m] # NewNodeFields.rotation})
    + Cardinality({m \in Live : scale[m] # NewNodeFields.scale})

MaxEdits == 2

NextFrame ==
    \/ \E n \in Live, v \in PosInputs :
          /\ Edits < MaxEdits
          /\ position[n] = NewNodeFields.position
          /\ SetPosition(n, v[1], v[2], v[3])
    \/ \E n \in Live, v \in PosVInputs :
          /\ Edits < MaxEdits
          /\ position[n] = NewNodeFields.position
          /\ SetPositionV(n, v)
    \/ \E n \in Live, t \in Deltas :
          /\ Edits < MaxEdits
          /\ position[n] = NewNodeFields.position
          /\ TranslateX(n, t)
    \/ \E n \in Live, t \in Deltas :
          /\ Edits < MaxEdits
          /\ position[n] = NewNodeFields.position
          /\ TranslateY(n, t)
    \/ \E n \in Live, t \in Deltas :
          /\ Edits < MaxEdits
          /\ position[n] = NewNodeFields.position
          /\ TranslateZ(n, t)
    \/ \E n \in Live, q \in RotInputs :
          /\ Edits < MaxEdits
          /\ rotation[n] = NewNodeFields.rotation
          /\ SetRotation(n, q)
    \/ \E n \in Live, axis \in Axes, a \in Angles :
          /\ Edits < MaxEdits
          /\ rotation[n] = NewNodeFields.rotation
          /\ RotateAroundAxis(n, axis, a)
    \/ \E n \in Live, a \in Angles :
          /\ Edits < MaxEdits
          /\ rotation[n] = NewNodeFields.rotation
          /\ RotateX(n, a)
    \/ \E n \in Live, a \in Angles :
          /\ Edits < MaxEdits
          /\ rotation[n] = NewNodeFields.rotation
          /\ RotateY(n, a)
    \/ \E n \in Live, a \in Angles :
          /\ Edits < MaxEdits
          /\ rotation[n] = NewNodeFields.rotation
          /\ RotateZ(n, a)
    \/ \E n \in Live, s \in ScaleInputs :
          /\ Edits < MaxEdits
          /\ scale[n] = NewNodeFields.scale
          /\ SetScale(n, s[1], s[2], s[3])
    \/ \E n \in Live, s \in ScaleVInputs :
          /\ Edits < MaxEdits
          /\ scale[n] = NewNodeFields.scale
          /\ SetScaleV(n, s)
    \/ \E n \in Live, k \in Factors :
          /\ Edits < MaxEdits
          /\ scale[n] = NewNodeFields.scale
          /\ ScaleX(n, k)
    \/ \E n \in Live, k \in Factors :
          /\ Edits < MaxEdits
          /\ scale[n] = NewNodeFields.scale
          /\ ScaleY(n, k)
    \/ \E n \in Live, k \in Factors :
          /\ Edits < MaxEdits
          /\ scale[n] = NewNodeFields.scale
          /\ ScaleZ(n, k)
    \/ \E n \in Live, c \in Live :
          /\ GetParent(c) = Nil
          /\ n \notin Subtree(c)
          /\ AddChild(n, c)
    \/ \E n \in Live :
          /\ GetParent(n) = Nil
          /\ UpdateWorldTransform(n)

SpecFrame == InitFrame /\ [][NextFrame]_vars

\* Every node but n keeps its position, rotation, scale and validity flag.
OthersKept(n) ==
    \A m \in Live \ {n} :
        /\ position'[m] = position[m]
        /\ rotation'[m] = rotation[m]
        /\ scale'[m] = scale[m]
        /\ transformValid'[m] = transformValid[m]

PositionMutators == {"SetPosition", "SetPositionV", "TranslateX", "TranslateY", "TranslateZ"}
RotationMutators == {"SetRotation", "RotateAroundAxis", "RotateX", "RotateY", "RotateZ"}
ScaleMutators == {"SetScale", "SetScaleV", "ScaleX", "ScaleY", "ScaleZ"}

\* The step of a TRS mutator writes the component the mutator names, of its
\* receiver, and the receiver's validity flag, and nothing else.
MutatorFrame ==
    last'.op \in TRSMutators =>
        /\ OthersKept(last'.n)
        /\ UNCHANGED <<parent, children, transform, worldTransform, crashed>>
        /\ last'.op \in PositionMutators => UNCHANGED <<rotation, scale>>
        /\ last'.op \in RotationMutators => UNCHANGED <<position, scale>>
        /\ last'.op \in ScaleMutators => UNCHANGED <<position, rotation>>

(***************************************************************************)
(* C26: each TRS mutator changes only the component it names, of the node  *)
(* it is called on, and that node's cache validity flag; none writes       *)
(* worldTransform, parent or children (nor the cached matrix), and a step  *)
(* that changes a world transform is a propagation pass.                   *)
(***************************************************************************)
C26_MutatorsWriteOnlyTheirComponent ==
    [][/\ MutatorFrame
       /\ worldTransform' # worldTransform => last'.op = "updateWorldTransform"]_vars

\* A mutator was called on the child p after a pass had given p a world
\* transform other than the zero matrix and the identity, while its parent n
\* holds a position of its own: the call left all of that in place.
C26_Witness ==
    /\ last.op \in TRSMutators
    /\ last.n = "p"
    /\ GetParent("p") = "n"
    /\ ~transformValid["p"]
    /\ transformValid["n"]
    /\ position["n"] # NewNodeFields.position
    /\ worldTransform["p"] \notin {ZeroMat4, Ident4}

(***************************************************************************)
(* The three nodes, each moved at most once before the first AddChild,     *)
(* under any AddChild calls and propagation passes started at any node.    *)
(***************************************************************************)
MaxLinks == 2

NextPass ==
    \/ \E n \in Live, t \in Deltas :
          /\ Adds = 0
          /\ position[n] = NewNodeFields.position
          /\ TranslateX(n, t)
    \/ \E n \in Live, c \in Live :
          /\ ~crashed
          /\ Adds < MaxLinks
          /\ AddChild(n, c)
    \/ \E n \in Live :
          /\ ~crashed
          /\ UpdateWorldTransform(n)

SpecPass == InitGraph /\ [][NextPass]_vars

\* No node of the structure is below itself.
NoCycle == \A m \in Live : m \notin Below(m)

\* Every node is in at most one children sequence, at most once.
AddedOnce == \A c \in Live : Cardinality(Places(c)) <= 1

\* The places of the sequence of writes tr at which m is written.
WritesOf(tr, m) == {i \in DOMAIN tr : tr[i].node = m}

\* What a step that is a pass on a structure satisfying pre does: it ends;
\* it writes the nodes of the subtree and no others, each once, the node it
\* started at first; each other node is written after the node whose
\* children sequence holds it, with that node's new world transform as
\* input; and what is below an earlier child is written before a later child.
PassStep(pre) ==
    (last'.op = "updateWorldTransform" /\ pre) =>
        LET n == last'.n
            tr == last'.visits
            First(m) == CHOOSE i \in WritesOf(tr, m) : \A j \in WritesOf(tr, m) : i <= j
            Local(m) == TRSMatrix(position[m], rotation[m], scale[m])
        IN  /\ ~crashed'
            /\ \A m \in Subtree(n) : Cardinality(WritesOf(tr, m)) = 1
            /\ \A i \in DOMAIN tr : tr[i].node \in Subtree(n)
            /\ tr[1] = [node |-> n, from |-> Nil]
            /\ worldTransform'[n] = MatProduct(RootInput(n), Local(n))
            /\ \A i \in 2..Len(tr) :
                  /\ \E k \in 1..Len(GetChildren(tr[i].from)) :
                        GetChildren(tr[i].from)[k] = tr[i].node
                  /\ \E j \in 1..(i - 1) : tr[j].node = tr[i].from
                  /\ worldTransform'[tr[i].node] =
                        MatProduct(worldTransform'[tr[i].from], Local(tr[i].node))
            /\ \A m \in Subtree(n) : \A a, b \in 1..Len(GetChildren(m)) :
                  a < b => \A x \in Subtree(GetChildren(m)[a]) :
                               First(x) < First(GetChildren(m)[b])
            /\ \A m \in Live \ Subtree(n) : worldTransform'[m] = worldTransform[m]

Vec3Add(a, b) == <<a[1] + b[1], a[2] + b[2], a[3] + b[3]>>

\* Quaternion.Conjugated
Conjugated(q1) == Quat(q1.W, Vec3Mul(q1.V, -1))

\* A Rotate that leaves out the doubling of q1.V in the second cross product.
RotateSingleCross(q1, v) ==
    LET cross == Vec3Cross(q1.V, v)
        mul2 == Vec3Cross(q1.V, cross)
        w2 == Vec3Mul(cross, 2 * q1.W)
    IN  Vec3Add(Vec3Add(v, w2), mul2)

\* Quaternion.Rotate: v + 2w (q1.V x v) + 2 q1.V x (q1.V x v).
Rotate(q1, v) ==
    LET cross == Vec3Cross(q1.V, v)
        mul2 == Vec3Cross(Vec3Mul(q1.V, 2), cross)
        w2 == Vec3Mul(cross, 2 * q1.W)
        out == Vec3Add(v, w2)
    IN  Vec3Add(out, mul2)

\* q.MulWith(&q2) on the quaternion held.
QuatMulWithCall(q2) ==
    /\ last.writes < MaxWrites
    /\ MathStep("MulWith", "Quaternion", q2, <<>>, QuatMulWith(last.m, q2), 1)

\* q.Rotate(&v)
RotateCall(v) == MathStep("Rotate", "Quaternion", v, Rotate(last.m, v), last.m, 0)

(***************************************************************************)
(* math: the rotation matrices of a quaternion.                            *)
(***************************************************************************)
\* A Quaternion.Mat3 with the signs of the w terms exchanged: the transpose.
QuatMat3Transposed(q1) ==
    LET w == q1.W
        x == q1.V[1]
        y == q1.V[2]
        z == q1.V[3]
    IN  <<1 - 2*y*y - 2*z*z, 2*x*y - 2*w*z, 2*x*z + 2*w*y,
          2*x*y + 2*w*z, 1 - 2*x*x - 2*z*z, 2*y*z - 2*w*x,
          2*x*z - 2*w*y, 2*y*z + 2*w*x, 1 - 2*x*x - 2*y*y>>

\* Quaternion.Mat3
QuatMat3(q1) ==
    LET w == q1.W
        x == q1.V[1]
        y == q1.V[2]
        z == q1.V[3]
    IN  <<1 - 2*y*y - 2*z*z, 2*x*y + 2*w*z, 2*x*z - 2*w*y,
          2*x*y - 2*w*z, 1 - 2*x*x - 2*z*z, 2*y*z + 2*w*x,
          2*x*z + 2*w*y, 2*y*z - 2*w*x, 1 - 2*x*x - 2*y*y>>

\* Mat3.Mul3x1
Mul3x1(m1, m2) ==
    <<m1[1]*m2[1] + m1[4]*m2[2] + m1[7]*m2[3],
      m1[2]*m2[1] + m1[5]*m2[2] + m1[8]*m2[3],
      m1[3]*m2[1] + m1[6]*m2[2] + m1[9]*m2[3]>>

\* Mat3.SetOrientation: the matrix m1 after m1.SetOrientation(&q1).
SetOrientation(m1, q1) ==
    LET w == q1.W
        x == q1.V[1]
        y == q1.V[2]
        z == q1.V[3]
    IN  [m1 EXCEPT ![1] = 1 - 2*y*y - 2*z*z,
                   ![2] = 2*x*y + 2*w*z,
                   ![3] = 2*x*z - 2*w*y,
                   ![4] = 2*x*y - 2*w*z,
                   ![5] = 1 - 2*x*x - 2*z*z,
                   ![6] = 2*y*z + 2*w*x,
                   ![7] = 2*x*z + 2*w*y,
                   ![8] = 2*y*z - 2*w*x,
                   ![9] = 1 - 2*x*x - 2*y*y]

\* Mat3x4.SetOrientationAndPos: m1 after m1.SetOrientationAndPos(&q1, &v1).
SetOrientationAndPos(m1, q1, v1) ==
    LET w == q1.W
        x == q1.V[1]
        y == q1.V[2]
        z == q1.V[3]
    IN  [m1 EXCEPT ![1] = 1 - 2*y*y - 2*z*z,
                   ![2] = 2*x*y + 2*w*z,
                   ![3] = 2*x*z - 2*w*y,
                   ![4] = 2*x*y - 2*w*z,
                   ![5] = 1 - 2*x*x - 2*z*z,
                   ![6] = 2*y*z + 2*w*x,
                   ![7] = 2*x*z + 2*w*y,
                   ![8] = 2*y*z - 2*w*x,
                   ![9] = 1 - 2*x*x - 2*y*y,
                   ![10] = v1[1],
                   ![11] = v1[2],
                   ![12] = v1[3]]

\* q.Mat3() and q.Mat4()
QuatMat3Call == MathStep("Mat3", "Quaternion", Nil, QuatMat3(last.m), last.m, 0)
QuatMat4Call == MathStep("Mat4", "Quaternion", Nil, QuatMat4(last.m), last.m, 0)

\* m := q.Mat3(); m.Mul3x1(&v)
Mul3x1Call(v) ==
    MathStep("Mat3.Mul3x1", "Quaternion", v, Mul3x1(QuatMat3(last.m), v), last.m, 0)

\* m1.SetOrientation(&q) on a matrix m1 the program holds beside q; ret is
\* m1 after the call.
SetOrientationCall(m1) ==
    MathStep("SetOrientation", "Quaternion", m1, SetOrientation(m1, last.m), last.m, 0)

\* m1.SetOrientationAndPos(&q, &v1)
SetOrientationAndPosCall(m1, v1) ==
    MathStep("SetOrientationAndPos", "Quaternion", v1,
             SetOrientationAndPos(m1, last.m, v1), last.m, 0)

\* The quaternions i, j and 1+i, of which the last is no unit quaternion, and
\* the vectors the model rotates.
QuatInputs == {Quat(0, <<1, 0, 0>>), Quat(0, <<0, 1, 0>>), Quat(1, <<1, 0, 0>>)}
RotateInputs == {<<1, 0, 0>>, <<0, 1, 0>>, <<0, 0, 1>>, <<1, 2, 3>>, <<-1, 1, 0>>}

\* q := QuatIdent()
InitQuat ==
    /\ parent = <<>>
    /\ children = <<>>
    /\ position = <<>>
    /\ rotation = <<>>
    /\ scale = <<>>
    /\ transformValid = <<>>
    /\ transform = <<>>
    /\ worldTransform = <<>>
    /\ crashed = FALSE
    /\ last = MathCall("Literal", "Quaternion", <<>>, Nil, QuatIdent, QuatIdent, 0)

NextQuat ==
    \/ \E q2 \in QuatInputs : QuatMulWithCall(q2)
    \/ \E v \in RotateInputs : RotateCall(v)
    \/ QuatMat3Call
    \/ QuatMat4Call
    \/ \E v \in RotateInputs : Mul3x1Call(v)
    \/ \E m1 \in {IdentOf("Mat3"), LayoutInput("Mat3")} : SetOrientationCall(m1)
    \/ \E m1 \in {IdentOf("Mat3x4"), LayoutInput("Mat3x4")}, v1 \in RotateInputs :
          SetOrientationAndPosCall(m1, v1)

SpecQuat == InitQuat /\ [][NextQuat]_vars

\* The square of the length of q.
NormSq(q) == q.W * q.W + q.V[1] * q.V[1] + q.V[2] * q.V[2] + q.V[3] * q.V[3]

C30_MatrixFormsAgree ==
    /\ last.op = "Mat3.Mul3x1" => last.ret = Rotate(last.recv, last.arg)
    /\ last.op = "Mat4" =>
          \A row, col \in 0..3 :
              At("Mat4", last.ret, row, col) =
                  IF row < 3 /\ col < 3 THEN At("Mat3", QuatMat3(last.recv), row, col)
                  ELSE IF row = col THEN 1 ELSE 0
    /\ last.op = "SetOrientation" => last.ret = QuatMat3(last.recv)
    /\ last.op = "SetOrientationAndPos" =>
          /\ Len(last.ret) = 12
          /\ SubSeq(last.ret, 1, 9) = QuatMat3(last.recv)
          /\ \A row \in 0..2 : At("Mat3x4", last.ret, row, 3) = last.arg[row + 1]

\* The quaternion i * (1+i) = -1 + i, which is no unit quaternion and has a
\* matrix with elements off the diagonal, applied to (1,2,3).
C30_Witness ==
    /\ last.op = "Mat3.Mul3x1"
    /\ last.recv = Quat(-1, <<1, 0, 0>>)
    /\ last.arg = <<1, 2, 3>>
    /\ last.ret = <<1, 4, -7>>

(***************************************************************************)
(* math: the normalisation of quaternions.  Its branches depend on what    *)
(* float32 does away from the integers: squares that overflow to infinity  *)
(* or underflow to zero, and lengths below the tolerance of FloatEqual.    *)
(* A float is modelled here as zero or a signed power of two with an       *)
(* exponent in -MaxExp..MaxExp, with +Inf one step above; the quaternions  *)
(* have one component that is not zero, so that every sum has a zero       *)
(* operand and every square root is exact.                                 *)
(***************************************************************************)
MaxExp == 6

\* The tolerance of FloatEqual is 2 ^ -EpsExp.
EpsExp == 2

\* s * 2^e, zero when s is 0.
Float(s, e) == [s |-> s, e |-> e]
FloatZero == Float(0, 0)
FloatOne == Float(1, 0)
InfPos == Float(1, MaxExp + 1)
MaxValue == Float(1, MaxExp)
Epsilon == Float(1, -EpsExp)

\* a * b in float32: the exponents add; the product of two finite numbers
\* overflows to infinity and underflows to zero.
FloatMul(a, b) ==
    IF a.s = 0 \/ b.s = 0 THEN FloatZero
    ELSE IF a.e > MaxExp \/ b.e > MaxExp \/ a.e + b.e > MaxExp
         THEN Float(a.s * b.s, MaxExp + 1)
    ELSE IF a.e + b.e < -MaxExp THEN FloatZero
    ELSE Float(a.s * b.s, a.e + b.e)

\* a + b where one of the two is zero.
FloatAdd(a, b) == CASE a.s = 0 -> b [] b.s = 0 -> a

\* Sqrt of zero, of +Inf and of a power of two with an even exponent.
Sqrt(a) ==
    CASE a.s = 0 -> FloatZero
      [] a = InfPos -> InfPos
      [] a.s = 1 /\ a.e <= MaxExp /\ a.e % 2 = 0 -> Float(1, a.e \div 2)

\* 1.0 / a for a finite a above zero.
FloatRecip(a) == CASE a.s = 1 /\ a.e <= MaxExp -> Float(1, -a.e)

\* FloatEqualThreshold(a, b, epsilon): a = b, or |a - b| is below epsilon.
\* Of two powers of two of the same sign the difference is at least half the
\* larger one and below it; of opposite signs it is above the larger one
\* and at most twice it.
FloatEqualThreshold(a, b, epsilon) ==
    \/ a = b
    \/ a.s = 0 /\ b.e < epsilon.e
    \/ b.s = 0 /\ a.e < epsilon.e
    \/ a.s # 0 /\ a.s = b.s /\ a.e <= epsilon.e /\ b.e <= epsilon.e
    \/ a.s # 0 /\ a.s = -b.s /\ a.e < epsilon.e /\ b.e < epsilon.e
         /\ ~(a.e = b.e /\ a.e = epsilon.e - 1)

\* Vec3.Mul on floats.
Vec3MulFloat(v, c) == <<FloatMul(v[1], c), FloatMul(v[2], c), FloatMul(v[3], c)>>

\* Quaternion.Len
QuatLen(q1) ==
    Sqrt(FloatAdd(FloatAdd(FloatAdd(FloatMul(q1.W, q1.W), FloatMul(q1.V[1], q1.V[1])),
                           FloatMul(q1.V[2], q1.V[2])),
                  FloatMul(q1.V[3], q1.V[3])))

\* QuatIdent() in floats.
QuatIdentFloat == Quat(FloatOne, <<FloatZero, FloatZero, FloatZero>>)

\* What a normalisation gives: the quaternion, and the numbers it divided by
\* (none when it did not divide).
Normal(q, divisors) == [q |-> q, divisors |-> divisors]

\* Quaternion.Normalized
Normalized(q1) ==
    LET length == QuatLen(q1)
        bounded == IF length = InfPos THEN MaxValue ELSE length
        il == FloatRecip(bounded)
    IN  IF FloatEqualThreshold(FloatOne, length, Epsilon) THEN Normal(q1, {})
        ELSE IF FloatEqualThreshold(length, FloatZero, Epsilon)
             THEN Normal(QuatIdentFloat, {})
        ELSE Normal(Quat(FloatMul(q1.W, il), Vec3MulFloat(q1.V, il)), {bounded})

\* Quaternion.SetNormalizedOf: q1 after q1.SetNormalizedOf(&q2).
SetNormalizedOf(q1, q2) ==
    LET length == QuatLen(q2)
        bounded == IF length = InfPos THEN MaxValue ELSE length
        il == FloatRecip(bounded)
    IN  IF FloatEqualThreshold(FloatOne, length, Epsilon)
        THEN Normal([q1 EXCEPT !.W = q2.W, !.V = q2.V], {})
        ELSE IF length = FloatZero
             THEN Normal([q1 EXCEPT !.W = FloatOne,
                                    !.V = <<FloatZero, FloatZero, FloatZero>>], {})
        ELSE Normal([q1 EXCEPT !.W = FloatMul(q2.W, il), !.V = Vec3MulFloat(q2.V, il)],
                    {bounded})

\* Quaternion.Normalize: q1 after q1.Normalize().
Normalize(q1) ==
    LET length == QuatLen(q1)
        bounded == IF length = InfPos THEN MaxValue ELSE length
        il == FloatRecip(bounded)
    IN  IF FloatEqualThreshold(FloatOne, length, Epsilon) THEN Normal(q1, {})
        ELSE IF length = FloatZero
             THEN Normal([q1 EXCEPT !.W = FloatOne,
                                    !.V = <<FloatZero, FloatZero, FloatZero>>], {})
        ELSE Normal([q1 EXCEPT !.W = FloatMul(@, il), !.V = Vec3MulFloat(@, il)],
                    {bounded})

\* q.Normalized(), dst.SetNormalizedOf(&q) and q.Normalize() on the
\* quaternion held; only the last writes it.
NormalizedCall ==
    MathStep("Normalized", "Quaternion", Nil, Normalized(last.m), last.m, 0)

SetNormalizedOfCall(dst) ==
    MathStep("SetNormalizedOf", "Quaternion", dst, SetNormalizedOf(dst, last.m), last.m, 0)

NormalizeCall ==
    /\ last.writes < MaxWrites
    /\ MathStep("Normalize", "Quaternion", Nil, Normalize(last.m), Normalize(last.m).q, 1)

\* The quaternions with at most one component that is not zero.
FloatQuats ==
    LET Values == {Float(s, e) : s \in {-1, 1}, e \in (-MaxExp)..MaxExp}
        Z == FloatZero
    IN  {Quat(Z, <<Z, Z, Z>>)}
        \cup {Quat(x, <<Z, Z, Z>>) : x \in Values}
        \cup {Quat(Z, <<x, Z, Z>>) : x \in Values}
        \cup {Quat(Z, <<Z, x, Z>>) : x \in Values}
        \cup {Quat(Z, <<Z, Z, x>>) : x \in Values}

InitNormalize ==
    /\ parent = <<>>
    /\ children = <<>>
    /\ position = <<>>
    /\ rotation = <<>>
    /\ scale = <<>>
    /\ transformValid = <<>>
    /\ transform = <<>>
    /\ worldTransform = <<>>
    /\ crashed = FALSE
    /\ \E q \in FloatQuats : last = MathCall("Literal", "Quaternion", <<>>, Nil, q, q, 0)

NextNormalize ==
    \/ NormalizedCall
    \/ \E dst \in {QuatIdentFloat} : SetNormalizedOfCall(dst)
    \/ NormalizeCall

SpecNormalize == InitNormalize /\ [][NextNormalize]_vars

NormalizeOps == {"Normalized", "SetNormalizedOf", "Normalize"}

\* A normalisation divided by nothing or by a number that is not zero; a
\* quaternion of length zero gave the identity, one of length 1 itself, and
\* one of infinite length was divided by MaxValue.
NormalizeIsSafe ==
    last.op \in NormalizeOps =>
        /\ FloatZero \notin last.ret.divisors
        /\ QuatLen(last.recv) = FloatZero => last.ret.q = QuatIdentFloat
        /\ QuatLen(last.recv) = FloatOne => last.ret.q = last.recv
        /\ QuatLen(last.recv) = InfPos => last.ret.divisors = {MaxValue}

(***************************************************************************)
(* C28: quaternion normalisation never divides by zero and its three       *)
(* variants agree: a quaternion of length zero gives the identity, one of  *)
(* length 1 is left unchanged, an infinite length is replaced by MaxValue  *)
(* before the division, and Normalized, SetNormalizedOf and Normalize      *)
(* give the same quaternion for every input.                               *)
(***************************************************************************)
C28_NormalizeVariantsAgree ==
    /\ NormalizeIsSafe
    /\ last.op \in NormalizeOps =>
          /\ last.ret.q = Normalized(last.recv).q
          /\ last.ret.q = SetNormalizedOf(QuatIdentFloat, last.recv).q
          /\ last.ret.q = Normalize(last.recv).q

(***************************************************************************)
(* math: the in-place ("memory friendly") variants.  The program holds a   *)
(* store h of objects, named a, b, d and e, and passes their names: a call *)
(* m1.AddOf(m2, m3) reads and writes h through the names, one statement    *)
(* after the other, so that a destination that is also an argument is      *)
(* read after it was written wherever the code does so.                    *)
(***************************************************************************)
\* m[i-1] = v in Go: the element i of the object m of the store is v.
Store(h, m, i, v) == [h EXCEPT ![m][i] = v]

\* The store after a statement: the one element of S, which is the set of
\* the stores that the statement leaves of the store s before it.
After(S) == CHOOSE r \in S : TRUE

\* Mat2.Add, Mat3.Add, Mat4.Add
Add(type, m1, m2) ==
    CASE type = "Mat2" ->
             (<<m1[1] + m2[1],
                m1[2] + m2[2],
                m1[3] + m2[3],
                m1[4] + m2[4]>>)
      [] type = "Mat3" ->
             (<<m1[1] + m2[1],
                m1[2] + m2[2],
                m1[3] + m2[3],
                m1[4] + m2[4],
                m1[5] + m2[5],
                m1[6] + m2[6],
                m1[7] + m2[7],
                m1[8] + m2[8],
                m1[9] + m2[9]>>)
      [] type = "Mat4" ->
             (<<m1[1] + m2[1],
                m1[2] + m2[2],
                m1[3] + m2[3],
                m1[4] + m2[4],
                m1[5] + m2[5],
                m1[6] + m2[6],
                m1[7] + m2[7],
                m1[8] + m2[8],
                m1[9] + m2[9],
                m1[10] + m2[10],
                m1[11] + m2[11],
                m1[12] + m2[12],
                m1[13] + m2[13],
                m1[14] + m2[14],
                m1[15] + m2[15],
                m1[16] + m2[16]>>)

\* Mat2.Sub, Mat3.Sub, Mat4.Sub
Sub(type, m1, m2) ==
    CASE type = "Mat2" ->
             (<<m1[1] - m2[1],
                m1[2] - m2[2],
                m1[3] - m2[3],
                m1[4] - m2[4]>>)
      [] type = "Mat3" ->
             (<<m1[1] - m2[1],
                m1[2] - m2[2],
                m1[3] - m2[3],
                m1[4] - m2[4],
                m1[5] - m2[5],
                m1[6] - m2[6],
                m1[7] - m2[7],
                m1[8] - m2[8],
                m1[9] - m2[9]>>)
      [] type = "Mat4" ->
             (<<m1[1] - m2[1],
                m1[2] - m2[2],
                m1[3] - m2[3],
                m1[4] - m2[4],
                m1[5] - m2[5],
                m1[6] - m2[6],
                m1[7] - m2[7],
                m1[8] - m2[8],
                m1[9] - m2[9],
                m1[10] - m2[10],
                m1[11] - m2[11],
                m1[12] - m2[12],
                m1[13] - m2[13],
                m1[14] - m2[14],
                m1[15] - m2[15],
                m1[16] - m2[16]>>)

\* Mat2.Transposed, Mat3.Transposed, Mat4.Transposed
Transposed(type, m1) ==
    CASE type = "Mat2" ->
             (<<m1[1],
                m1[3],
                m1[2],
                m1[4]>>)
      [] type = "Mat3" ->
             (<<m1[1],
                m1[4],
                m1[7],
                m1[2],
                m1[5],
                m1[8],
                m1[3],
                m1[6],
                m1[9]>>)
      [] type = "Mat4" ->
             (<<m1[1],
                m1[5],
                m1[9],
                m1[13],
                m1[2],
                m1[6],
                m1[10],
                m1[14],
                m1[3],
                m1[7],
                m1[11],
                m1[15],
                m1[4],
                m1[8],
                m1[12],
                m1[16]>>)

\* Mat2.AddOf, Mat3.AddOf, Mat4.AddOf: m1 = m2 + m3
AddOf(type, h, m1, m2, m3) ==
    CASE type = "Mat2" ->
             LET h1 == After({Store(s, m1, 1, s[m2][1] + s[m3][1]) : s \in {h}})
                 h2 == After({Store(s, m1, 2, s[m2][2] + s[m3][2]) : s \in {h1}})
                 h3 == After({Store(s, m1, 3, s[m2][3] + s[m3][3]) : s \in {h2}})
                 h4 == After({Store(s, m1, 4, s[m2][4] + s[m3][4]) : s \in {h3}})
             IN  h4
      [] type = "Mat3" ->
             LET h1 == After({Store(s, m1, 1, s[m2][1] + s[m3][1]) : s \in {h}})
                 h2 == After({Store(s, m1, 2, s[m2][2] + s[m3][2]) : s \in {h1}})
                 h3 == After({Store(s, m1, 3, s[m2][3] + s[m3][3]) : s \in {h2}})
                 h4 == After({Store(s, m1, 4, s[m2][4] + s[m3][4]) : s \in {h3}})
                 h5 == After({Store(s, m1, 5, s[m2][5] + s[m3][5]) : s \in {h4}})
                 h6 == After({Store(s, m1, 6, s[m2][6] + s[m3][6]) : s \in {h5}})
                 h7 == After({Store(s, m1, 7, s[m2][7] + s[m3][7]) : s \in {h6}})
                 h8 == After({Store(s, m1, 8, s[m2][8] + s[m3][8]) : s \in {h7}})
                 h9 == After({Store(s, m1, 9, s[m2][9] + s[m3][9]) : s \in {h8}})
             IN  h9
      [] type = "Mat4" ->
             LET h1 == After({Store(s, m1, 1, s[m2][1] + s[m3][1]) : s \in {h}})
                 h2 == After({Store(s, m1, 2, s[m2][2] + s[m3][2]) : s \in {h1}})
                 h3 == After({Store(s, m1, 3, s[m2][3] + s[m3][3]) : s \in {h2}})
                 h4 == After({Store(s, m1, 4, s[m2][4] + s[m3][4]) : s \in {h3}})
                 h5 == After({Store(s, m1, 5, s[m2][5] + s[m3][5]) : s \in {h4}})
                 h6 == After({Store(s, m1, 6, s[m2][6] + s[m3][6]) : s \in {h5}})
                 h7 == After({Store(s, m1, 7, s[m2][7] + s[m3][7]) : s \in {h6}})
                 h8 == After({Store(s, m1, 8, s[m2][8] + s[m3][8]) : s \in {h7}})
                 h9 == After({Store(s, m1, 9, s[m2][9] + s[m3][9]) : s \in {h8}})
                 h10 == After({Store(s, m1, 10, s[m2][10] + s[m3][10]) : s \in {h9}})
                 h11 == After({Store(s, m1, 11, s[m2][11] + s[m3][11]) : s \in {h10}})
                 h12 == After({Store(s, m1, 12, s[m2][12] + s[m3][12]) : s \in {h11}})
                 h13 == After({Store(s, m1, 13, s[m2][13] + s[m3][13]) : s \in {h12}})
                 h14 == After({Store(s, m1, 14, s[m2][14] + s[m3][14]) : s \in {h13}})
                 h15 == After({Store(s, m1, 15, s[m2][15] + s[m3][15]) : s \in {h14}})
                 h16 == After({Store(s, m1, 16, s[m2][16] + s[m3][16]) : s \in {h15}})
             IN  h16

\* Mat2.AddWith, Mat3.AddWith, Mat4.AddWith: m1 += m2
AddWith(type, h, m1, m2) ==
    CASE type = "Mat2" ->
             LET h1 == After({Store(s, m1, 1, s[m1][1] + s[m2][1]) : s \in {h}})
                 h2 == After({Store(s, m1, 2, s[m1][2] + s[m2][2]) : s \in {h1}})
                 h3 == After({Store(s, m1, 3, s[m1][3] + s[m2][3]) : s \in {h2}})
                 h4 == After({Store(s, m1, 4, s[m1][4] + s[m2][4]) : s \in {h3}})
             IN  h4
      [] type = "Mat3" ->
             LET h1 == After({Store(s, m1, 1, s[m1][1] + s[m2][1]) : s \in {h}})
                 h2 == After({Store(s, m1, 2, s[m1][2] + s[m2][2]) : s \in {h1}})
                 h3 == After({Store(s, m1, 3, s[m1][3] + s[m2][3]) : s \in {h2}})
                 h4 == After({Store(s, m1, 4, s[m1][4] + s[m2][4]) : s \in {h3}})
                 h5 == After({Store(s, m1, 5, s[m1][5] + s[m2][5]) : s \in {h4}})
                 h6 == After({Store(s, m1, 6, s[m1][6] + s[m2][6]) : s \in {h5}})
                 h7 == After({Store(s, m1, 7, s[m1][7] + s[m2][7]) : s \in {h6}})
                 h8 == After({Store(s, m1, 8, s[m1][8] + s[m2][8]) : s \in {h7}})
                 h9 == After({Store(s, m1, 9, s[m1][9] + s[m2][9]) : s \in {h8}})
             IN  h9
      [] type = "Mat4" ->
             LET h1 == After({Store(s, m1, 1, s[m1][1] + s[m2][1]) : s \in {h}})
                 h2 == After({Store(s, m1, 2, s[m1][2] + s[m2][2]) : s \in {h1}})
                 h3 == After({Store(s, m1, 3, s[m1][3] + s[m2][3]) : s \in {h2}})
                 h4 == After({Store(s, m1, 4, s[m1][4] + s[m2][4]) : s \in {h3}})
                 h5 == After({Store(s, m1, 5, s[m1][5] + s[m2][5]) : s \in {h4}})
                 h6 == After({Store(s, m1, 6, s[m1][6] + s[m2][6]) : s \in {h5}})
                 h7 == After({Store(s, m1, 7, s[m1][7] + s[m2][7]) : s \in {h6}})
                 h8 == After({Store(s, m1, 8, s[m1][8] + s[m2][8]) : s \in {h7}})
                 h9 == After({Store(s, m1, 9, s[m1][9] + s[m2][9]) : s \in {h8}})
                 h10 == After({Store(s, m1, 10, s[m1][10] + s[m2][10]) : s \in {h9}})
                 h11 == After({Store(s, m1, 11, s[m1][11] + s[m2][11]) : s \in {h10}})
                 h12 == After({Store(s, m1, 12, s[m1][12] + s[m2][12]) : s \in {h11}})
                 h13 == After({Store(s, m1, 13, s[m1][13] + s[m2][13]) : s \in {h12}})
                 h14 == After({Store(s, m1, 14, s[m1][14] + s[m2][14]) : s \in {h13}})
                 h15 == After({Store(s, m1, 15, s[m1][15] + s[m2][15]) : s \in {h14}})
                 h16 == After({Store(s, m1, 16, s[m1][16] + s[m2][16]) : s \in {h15}})
             IN  h16

\* Mat2.SubOf, Mat3.SubOf, Mat4.SubOf: m1 = m2 - m3
SubOf(type, h, m1, m2, m3) ==
    CASE type = "Mat2" ->
             LET h1 == After({Store(s, m1, 1, s[m2][1] - s[m3][1]) : s \in {h}})
                 h2 == After({Store(s, m1, 2, s[m2][2] - s[m3][2]) : s \in {h1}})
                 h3 == After({Store(s, m1, 3, s[m2][3] - s[m3][3]) : s \in {h2}})
                 h4 == After({Store(s, m1, 4, s[m2][4] - s[m3][4]) : s \in {h3}})
             IN  h4
      [] type = "Mat3" ->
             LET h1 == After({Store(s, m1, 1, s[m2][1] - s[m3][1]) : s \in {h}})
                 h2 == After({Store(s, m1, 2, s[m2][2] - s[m3][2]) : s \in {h1}})
                 h3 == After({Store(s, m1, 3, s[m2][3] - s[m3][3]) : s \in {h2}})
                 h4 == After({Store(s, m1, 4, s[m2][4] - s[m3][4]) : s \in {h3}})
                 h5 == After({Store(s, m1, 5, s[m2][5] - s[m3][5]) : s \in {h4}})
                 h6 == After({Store(s, m1, 6, s[m2][6] - s[m3][6]) : s \in {h5}})
                 h7 == After({Store(s, m1, 7, s[m2][7] - s[m3][7]) : s \in {h6}})
                 h8 == After({Store(s, m1, 8, s[m2][8] - s[m3][8]) : s \in {h7}})
                 h9 == After({Store(s, m1, 9, s[m2][9] - s[m3][9]) : s \in {h8}})
             IN  h9
      [] type = "Mat4" ->
             LET h1 == After({Store(s, m1, 1, s[m2][1] - s[m3][1]) : s \in {h}})
                 h2 == After({Store(s, m1, 2, s[m2][2] - s[m3][2]) : s \in {h1}})
                 h3 == After({Store(s, m1, 3, s[m2][3] - s[m3][3]) : s \in {h2}})
                 h4 == After({Store(s, m1, 4, s[m2][4] - s[m3][4]) : s \in {h3}})
                 h5 == After({Store(s, m1, 5, s[m2][5] - s[m3][5]) : s \in {h4}})
                 h6 == After({Store(s, m1, 6, s[m2][6] - s[m3][6]) : s \in {h5}})
                 h7 == After({Store(s, m1, 7, s[m2][7] - s[m3][7]) : s \in {h6}})
                 h8 == After({Store(s, m1, 8, s[m2][8] - s[m3][8]) : s \in {h7}})
                 h9 == After({Store(s, m1, 9, s[m2][9] - s[m3][9]) : s \in {h8}})
                 h10 == After({Store(s, m1, 10, s[m2][10] - s[m3][10]) : s \in {h9}})
                 h11 == After({Store(s, m1, 11, s[m2][11] - s[m3][11]) : s \in {h10}})
                 h12 == After({Store(s, m1, 12, s[m2][12] - s[m3][12]) : s \in {h11}})
                 h13 == After({Store(s, m1, 13, s[m2][13] - s[m3][13]) : s \in {h12}})
                 h14 == After({Store(s, m1, 14, s[m2][14] - s[m3][14]) : s \in {h13}})
                 h15 == After({Store(s, m1, 15, s[m2][15] - s[m3][15]) : s \in {h14}})
                 h16 == After({Store(s, m1, 16, s[m2][16] - s[m3][16]) : s \in {h15}})
             IN  h16

\* Mat2.SubWith, Mat3.SubWith, Mat4.SubWith: m1 -= m2
SubWith(type, h, m1, m2) ==
    CASE type = "Mat2" ->
             LET h1 == After({Store(s, m1, 1, s[m1][1] - s[m2][1]) : s \in {h}})
                 h2 == After({Store(s, m1, 2, s[m1][2] - s[m2][2]) : s \in {h1}})
                 h3 == After({Store(s, m1, 3, s[m1][3] - s[m2][3]) : s \in {h2}})
                 h4 == After({Store(s, m1, 4, s[m1][4] - s[m2][4]) : s \in {h3}})
             IN  h4
      [] type = "Mat3" ->
             LET h1 == After({Store(s, m1, 1, s[m1][1] - s[m2][1]) : s \in {h}})
                 h2 == After({Store(s, m1, 2, s[m1][2] - s[m2][2]) : s \in {h1}})
                 h3 == After({Store(s, m1, 3, s[m1][3] - s[m2][3]) : s \in {h2}})
                 h4 == After({Store(s, m1, 4, s[m1][4] - s[m2][4]) : s \in {h3}})
                 h5 == After({Store(s, m1, 5, s[m1][5] - s[m2][5]) : s \in {h4}})
                 h6 == After({Store(s, m1, 6, s[m1][6] - s[m2][6]) : s \in {h5}})
                 h7 == After({Store(s, m1, 7, s[m1][7] - s[m2][7]) : s \in {h6}})
                 h8 == After({Store(s, m1, 8, s[m1][8] - s[m2][8]) : s \in {h7}})
                 h9 == After({Store(s, m1, 9, s[m1][9] - s[m2][9]) : s \in {h8}})
             IN  h9
      [] type = "Mat4" ->
             LET h1 == After({Store(s, m1, 1, s[m1][1] - s[m2][1]) : s \in {h}})
                 h2 == After({Store(s, m1, 2, s[m1][2] - s[m2][2]) : s \in {h1}})
                 h3 == After({Store(s, m1, 3, s[m1][3] - s[m2][3]) : s \in {h2}})
                 h4 == After({Store(s, m1, 4, s[m1][4] - s[m2][4]) : s \in {h3}})
                 h5 == After({Store(s, m1, 5, s[m1][5] - s[m2][5]) : s \in {h4}})
                 h6 == After({Store(s, m1, 6, s[m1][6] - s[m2][6]) : s \in {h5}})
                 h7 == After({Store(s, m1, 7, s[m1][7] - s[m2][7]) : s \in {h6}})
                 h8 == After({Store(s, m1, 8, s[m1][8] - s[m2][8]) : s \in {h7}})
                 h9 == After({Store(s, m1, 9, s[m1][9] - s[m2][9]) : s \in {h8}})
                 h10 == After({Store(s, m1, 10, s[m1][10] - s[m2][10]) : s \in {h9}})
                 h11 == After({Store(s, m1, 11, s[m1][11] - s[m2][11]) : s \in {h10}})
                 h12 == After({Store(s, m1, 12, s[m1][12] - s[m2][12]) : s \in {h11}})
                 h13 == After({Store(s, m1, 13, s[m1][13] - s[m2][13]) : s \in {h12}})
                 h14 == After({Store(s, m1, 14, s[m1][14] - s[m2][14]) : s \in {h13}})
                 h15 == After({Store(s, m1, 15, s[m1][15] - s[m2][15]) : s \in {h14}})
                 h16 == After({Store(s, m1, 16, s[m1][16] - s[m2][16]) : s \in {h15}})
             IN  h16

\* Mat2.MulOf, Mat3.MulOf, Mat4.MulOf: m1 = m2 * c
MulOf(type, h, m1, m2, c) ==
    CASE type = "Mat2" ->
             LET h1 == After({Store(s, m1, 1, s[m2][1] * c) : s \in {h}})
                 h2 == After({Store(s, m1, 2, s[m2][2] * c) : s \in {h1}})
                 h3 == After({Store(s, m1, 3, s[m2][3] * c) : s \in {h2}})
                 h4 == After({Store(s, m1, 4, s[m2][4] * c) : s \in {h3}})
             IN  h4
      [] type = "Mat3" ->
             LET h1 == After({Store(s, m1, 1, s[m2][1] * c) : s \in {h}})
                 h2 == After({Store(s, m1, 2, s[m2][2] * c) : s \in {h1}})
                 h3 == After({Store(s, m1, 3, s[m2][3] * c) : s \in {h2}})
                 h4 == After({Store(s, m1, 4, s[m2][4] * c) : s \in {h3}})
                 h5 == After({Store(s, m1, 5, s[m2][5] * c) : s \in {h4}})
                 h6 == After({Store(s, m1, 6, s[m2][6] * c) : s \in {h5}})
                 h7 == After({Store(s, m1, 7, s[m2][7] * c) : s \in {h6}})
                 h8 == After({Store(s, m1, 8, s[m2][8] * c) : s \in {h7}})
                 h9 == After({Store(s, m1, 9, s[m2][9] * c) : s \in {h8}})
             IN  h9
      [] type = "Mat4" ->
             LET h1 == After({Store(s, m1, 1, s[m2][1] * c) : s \in {h}})
                 h2 == After({Store(s, m1, 2, s[m2][2] * c) : s \in {h1}})
                 h3 == After({Store(s, m1, 3, s[m2][3] * c) : s \in {h2}})
                 h4 == After({Store(s, m1, 4, s[m2][4] * c) : s \in {h3}})
                 h5 == After({Store(s, m1, 5, s[m2][5] * c) : s \in {h4}})
                 h6 == After({Store(s, m1, 6, s[m2][6] * c) : s \in {h5}})
                 h7 == After({Store(s, m1, 7, s[m2][7] * c) : s \in {h6}})
                 h8 == After({Store(s, m1, 8, s[m2][8] * c) : s \in {h7}})
                 h9 == After({Store(s, m1, 9, s[m2][9] * c) : s \in {h8}})
                 h10 == After({Store(s, m1, 10, s[m2][10] * c) : s \in {h9}})
                 h11 == After({Store(s, m1, 11, s[m2][11] * c) : s \in {h10}})
                 h12 == After({Store(s, m1, 12, s[m2][12] * c) : s \in {h11}})
                 h13 == After({Store(s, m1, 13, s[m2][13] * c) : s \in {h12}})
                 h14 == After({Store(s, m1, 14, s[m2][14] * c) : s \in {h13}})
                 h15 == After({Store(s, m1, 15, s[m2][15] * c) : s \in {h14}})
                 h16 == After({Store(s, m1, 16, s[m2][16] * c) : s \in {h15}})
             IN  h16

\* Mat2.MulWith, Mat3.MulWith, Mat4.MulWith: m1 *= c
ScalarMulWith(type, h, m1, c) ==
    CASE type = "Mat2" ->
             LET h1 == After({Store(s, m1, 1, s[m1][1] * c) : s \in {h}})
                 h2 == After({Store(s, m1, 2, s[m1][2] * c) : s \in {h1}})
                 h3 == After({Store(s, m1, 3, s[m1][3] * c) : s \in {h2}})
                 h4 == After({Store(s, m1, 4, s[m1][4] * c) : s \in {h3}})
             IN  h4
      [] type = "Mat3" ->
             LET h1 == After({Store(s, m1, 1, s[m1][1] * c) : s \in {h}})
                 h2 == After({Store(s, m1, 2, s[m1][2] * c) : s \in {h1}})
                 h3 == After({Store(s, m1, 3, s[m1][3] * c) : s \in {h2}})
                 h4 == After({Store(s, m1, 4, s[m1][4] * c) : s \in {h3}})
                 h5 == After({Store(s, m1, 5, s[m1][5] * c) : s \in {h4}})
                 h6 == After({Store(s, m1, 6, s[m1][6] * c) : s \in {h5}})
                 h7 == After({Store(s, m1, 7, s[m1][7] * c) : s \in {h6}})
                 h8 == After({Store(s, m1, 8, s[m1][8] * c) : s \in {h7}})
                 h9 == After({Store(s, m1, 9, s[m1][9] * c) : s \in {h8}})
             IN  h9
      [] type = "Mat4" ->
             LET h1 == After({Store(s, m1, 1, s[m1][1] * c) : s \in {h}})
                 h2 == After({Store(s, m1, 2, s[m1][2] * c) : s \in {h1}})
                 h3 == After({Store(s, m1, 3, s[m1][3] * c) : s \in {h2}})
                 h4 == After({Store(s, m1, 4, s[m1][4] * c) : s \in {h3}})
                 h5 == After({Store(s, m1, 5, s[m1][5] * c) : s \in {h4}})
                 h6 == After({Store(s, m1, 6, s[m1][6] * c) : s \in {h5}})
                 h7 == After({Store(s, m1, 7, s[m1][7] * c) : s \in {h6}})
                 h8 == After({Store(s, m1, 8, s[m1][8] * c) : s \in {h7}})
                 h9 == After({Store(s, m1, 9, s[m1][9] * c) : s \in {h8}})
                 h10 == After({Store(s, m1, 10, s[m1][10] * c) : s \in {h9}})
                 h11 == After({Store(s, m1, 11, s[m1][11] * c) : s \in {h10}})
                 h12 == After({Store(s, m1, 12, s[m1][12] * c) : s \in {h11}})
                 h13 == After({Store(s, m1, 13, s[m1][13] * c) : s \in {h12}})
                 h14 == After({Store(s, m1, 14, s[m1][14] * c) : s \in {h13}})
                 h15 == After({Store(s, m1, 15, s[m1][15] * c) : s \in {h14}})
                 h16 == After({Store(s, m1, 16, s[m1][16] * c) : s \in {h15}})
             IN  h16

\* Mul2Of, Mul3Of, Mul4Of, Mul3x4Of, Mul2x3Of: m1 = m2 * m3
ProductInto(type, h, m1, m2, m3) ==
    CASE type = "Mat2" ->
             LET h1 == After({Store(s, m1, 1, s[m2][1] * s[m3][1] + s[m2][3] * s[m3][2]) : s \in {h}})
                 h2 == After({Store(s, m1, 2, s[m2][2] * s[m3][1] + s[m2][4] * s[m3][2]) : s \in {h1}})
                 h3 == After({Store(s, m1, 3, s[m2][1] * s[m3][3] + s[m2][3] * s[m3][4]) : s \in {h2}})
                 h4 == After({Store(s, m1, 4, s[m2][2] * s[m3][3] + s[m2][4] * s[m3][4]) : s \in {h3}})
             IN  h4
      [] type = "Mat3" ->
             LET h1 == After({Store(s, m1, 1, s[m2][1] * s[m3][1] + s[m2][4] * s[m3][2]
                     + s[m2][7] * s[m3][3]) : s \in {h}})
                 h2 == After({Store(s, m1, 2, s[m2][2] * s[m3][1] + s[m2][5] * s[m3][2]
                     + s[m2][8] * s[m3][3]) : s \in {h1}})
                 h3 == After({Store(s, m1, 3, s[m2][3] * s[m3][1] + s[m2][6] * s[m3][2]
                     + s[m2][9] * s[m3][3]) : s \in {h2}})
                 h4 == After({Store(s, m1, 4, s[m2][1] * s[m3][4] + s[m2][4] * s[m3][5]
                     + s[m2][7] * s[m3][6]) : s \in {h3}})
                 h5 == After({Store(s, m1, 5, s[m2][2] * s[m3][4] + s[m2][5] * s[m3][5]
                     + s[m2][8] * s[m3][6]) : s \in {h4}})
                 h6 == After({Store(s, m1, 6, s[m2][3] * s[m3][4] + s[m2][6] * s[m3][5]
                     + s[m2][9] * s[m3][6]) : s \in {h5}})
                 h7 == After({Store(s, m1, 7, s[m2][1] * s[m3][7] + s[m2][4] * s[m3][8]
                     + s[m2][7] * s[m3][9]) : s \in {h6}})
                 h8 == After({Store(s, m1, 8, s[m2][2] * s[m3][7] + s[m2][5] * s[m3][8]
                     + s[m2][8] * s[m3][9]) : s \in {h7}})
                 h9 == After({Store(s, m1, 9, s[m2][3] * s[m3][7] + s[m2][6] * s[m3][8]
                     + s[m2][9] * s[m3][9]) : s \in {h8}})
             IN  h9
      [] type = "Mat4" ->
             LET h1 == After({Store(s, m1, 1, s[m2][1] * s[m3][1] + s[m2][5] * s[m3][2]
                     + s[m2][9] * s[m3][3] + s[m2][13] * s[m3][4]) : s \in {h}})
                 h2 == After({Store(s, m1, 2, s[m2][2] * s[m3][1] + s[m2][6] * s[m3][2]
                     + s[m2][10] * s[m3][3] + s[m2][14] * s[m3][4]) : s \in {h1}})
                 h3 == After({Store(s, m1, 3, s[m2][3] * s[m3][1] + s[m2][7] * s[m3][2]
                     + s[m2][11] * s[m3][3] + s[m2][15] * s[m3][4]) : s \in {h2}})
                 h4 == After({Store(s, m1, 4, s[m2][4] * s[m3][1] + s[m2][8] * s[m3][2]
                     + s[m2][12] * s[m3][3] + s[m2][16] * s[m3][4]) : s \in {h3}})
                 h5 == After({Store(s, m1, 5, s[m2][1] * s[m3][5] + s[m2][5] * s[m3][6]
                     + s[m2][9] * s[m3][7] + s[m2][13] * s[m3][8]) : s \in {h4}})
                 h6 == After({Store(s, m1, 6, s[m2][2] * s[m3][5] + s[m2][6] * s[m3][6]
                     + s[m2][10] * s[m3][7] + s[m2][14] * s[m3][8]) : s \in {h5}})
                 h7 == After({Store(s, m1, 7, s[m2][3] * s[m3][5] + s[m2][7] * s[m3][6]
                     + s[m2][11] * s[m3][7] + s[m2][15] * s[m3][8]) : s \in {h6}})
                 h8 == After({Store(s, m1, 8, s[m2][4] * s[m3][5] + s[m2][8] * s[m3][6]
                     + s[m2][12] * s[m3][7] + s[m2][16] * s[m3][8]) : s \in {h7}})
                 h9 == After({Store(s, m1, 9, s[m2][1] * s[m3][9] + s[m2][5] * s[m3][10]
                     + s[m2][9] * s[m3][11] + s[m2][13] * s[m3][12]) : s \in {h8}})
                 h10 == After({Store(s, m1, 10, s[m2][2] * s[m3][9] + s[m2][6] * s[m3][10]
                     + s[m2][10] * s[m3][11] + s[m2][14] * s[m3][12]) : s \in {h9}})
                 h11 == After({Store(s, m1, 11, s[m2][3] * s[m3][9] + s[m2][7] * s[m3][10]
                     + s[m2][11] * s[m3][11] + s[m2][15] * s[m3][12]) : s \in {h10}})
                 h12 == After({Store(s, m1, 12, s[m2][4] * s[m3][9] + s[m2][8] * s[m3][10]
                     + s[m2][12] * s[m3][11] + s[m2][16] * s[m3][12]) : s \in {h11}})
                 h13 == After({Store(s, m1, 13, s[m2][1] * s[m3][13] + s[m2][5] * s[m3][14]
                     + s[m2][9] * s[m3][15] + s[m2][13] * s[m3][16]) : s \in {h12}})
                 h14 == After({Store(s, m1, 14, s[m2][2] * s[m3][13] + s[m2][6] * s[m3][14]
                     + s[m2][10] * s[m3][15] + s[m2][14] * s[m3][16]) : s \in {h13}})
                 h15 == After({Store(s, m1, 15, s[m2][3] * s[m3][13] + s[m2][7] * s[m3][14]
                     + s[m2][11] * s[m3][15] + s[m2][15] * s[m3][16]) : s \in {h14}})
                 h16 == After({Store(s, m1, 16, s[m2][4] * s[m3][13] + s[m2][8] * s[m3][14]
                     + s[m2][12] * s[m3][15] + s[m2][16] * s[m3][16]) : s \in {h15}})
             IN  h16
      [] type = "Mat3x4" ->
             LET h1 == After({Store(s, m1, 1, s[m2][1] * s[m3][1] + s[m2][4] * s[m3][2]
                     + s[m2][7] * s[m3][3]) : s \in {h}})
                 h2 == After({Store(s, m1, 2, s[m2][2] * s[m3][1] + s[m2][5] * s[m3][2]
                     + s[m2][8] * s[m3][3]) : s \in {h1}})
                 h3 == After({Store(s, m1, 3, s[m2][3] * s[m3][1] + s[m2][6] * s[m3][2]
                     + s[m2][9] * s[m3][3]) : s \in {h2}})
                 h4 == After({Store(s, m1, 4, s[m2][1] * s[m3][4] + s[m2][4] * s[m3][5]
                     + s[m2][7] * s[m3][6]) : s \in {h3}})
                 h5 == After({Store(s, m1, 5, s[m2][2] * s[m3][4] + s[m2][5] * s[m3][5]
                     + s[m2][8] * s[m3][6]) : s \in {h4}})
                 h6 == After({Store(s, m1, 6, s[m2][3] * s[m3][4] + s[m2][6] * s[m3][5]
                     + s[m2][9] * s[m3][6]) : s \in {h5}})
                 h7 == After({Store(s, m1, 7, s[m2][1] * s[m3][7] + s[m2][4] * s[m3][8]
                     + s[m2][7] * s[m3][9]) : s \in {h6}})
                 h8 == After({Store(s, m1, 8, s[m2][2] * s[m3][7] + s[m2][5] * s[m3][8]
                     + s[m2][8] * s[m3][9]) : s \in {h7}})
                 h9 == After({Store(s, m1, 9, s[m2][3] * s[m3][7] + s[m2][6] * s[m3][8]
                     + s[m2][9] * s[m3][9]) : s \in {h8}})
                 h10 == After({Store(s, m1, 10, s[m2][1] * s[m3][10] + s[m2][4] * s[m3][11]
                     + s[m2][7] * s[m3][12] + s[m2][10]) : s \in {h9}})
                 h11 == After({Store(s, m1, 11, s[m2][2] * s[m3][10] + s[m2][5] * s[m3][11]
                     + s[m2][8] * s[m3][12] + s[m2][11]) : s \in {h10}})
                 h12 == After({Store(s, m1, 12, s[m2][3] * s[m3][10] + s[m2][6] * s[m3][11]
                     + s[m2][9] * s[m3][12] + s[m2][12]) : s \in {h11}})
             IN  h12
      [] type = "Mat2x3" ->
             LET h1 == After({Store(s, m1, 1, s[m2][1] * s[m3][1] + s[m2][3] * s[m3][2]) : s \in {h}})
                 h2 == After({Store(s, m1, 2, s[m2][2] * s[m3][1] + s[m2][4] * s[m3][2]) : s \in {h1}})
                 h3 == After({Store(s, m1, 3, s[m2][1] * s[m3][3] + s[m2][3] * s[m3][4]) : s \in {h2}})
                 h4 == After({Store(s, m1, 4, s[m2][2] * s[m3][3] + s[m2][4] * s[m3][4]) : s \in {h3}})
                 h5 == After({Store(s, m1, 5, s[m2][1] * s[m3][5] + s[m2][3] * s[m3][6]
                     + s[m2][5]) : s \in {h4}})
                 h6 == After({Store(s, m1, 6, s[m2][2] * s[m3][5] + s[m2][4] * s[m3][6]
                     + s[m2][6]) : s \in {h5}})
             IN  h6

\* Mul2With, Mul3With, Mul4With, Mul3x4With, Mul2x3With: m1 = m1 * m2
ProductWith(type, h, m1, m2) ==
    CASE type = "Mat2" ->
             LET v0 == h[m1][1]
                 v1 == h[m1][2]
                 v2 == h[m1][3]
                 v3 == h[m1][4]
                 h1 == After({Store(s, m1, 1, v0 * s[m2][1] + v2 * s[m2][2]) : s \in {h}})
                 h2 == After({Store(s, m1, 2, v1 * s[m2][1] + v3 * s[m2][2]) : s \in {h1}})
                 h3 == After({Store(s, m1, 3, v0 * s[m2][3] + v2 * s[m2][4]) : s \in {h2}})
                 h4 == After({Store(s, m1, 4, v1 * s[m2][3] + v3 * s[m2][4]) : s \in {h3}})
             IN  h4
      [] type = "Mat3" ->
             LET v0 == h[m1][1]
                 v1 == h[m1][2]
                 v2 == h[m1][3]
                 v3 == h[m1][4]
                 v4 == h[m1][5]
                 v5 == h[m1][6]
                 v6 == h[m1][7]
                 v7 == h[m1][8]
                 v8 == h[m1][9]
                 h1 == After({Store(s, m1, 1, v0 * s[m2][1] + v3 * s[m2][2]
                     + v6 * s[m2][3]) : s \in {h}})
                 h2 == After({Store(s, m1, 2, v1 * s[m2][1] + v4 * s[m2][2]
                     + v7 * s[m2][3]) : s \in {h1}})
                 h3 == After({Store(s, m1, 3, v2 * s[m2][1] + v5 * s[m2][2]
                     + v8 * s[m2][3]) : s \in {h2}})
                 h4 == After({Store(s, m1, 4, v0 * s[m2][4] + v3 * s[m2][5]
                     + v6 * s[m2][6]) : s \in {h3}})
                 h5 == After({Store(s, m1, 5, v1 * s[m2][4] + v4 * s[m2][5]
                     + v7 * s[m2][6]) : s \in {h4}})
                 h6 == After({Store(s, m1, 6, v2 * s[m2][4] + v5 * s[m2][5]
                     + v8 * s[m2][6]) : s \in {h5}})
                 h7 == After({Store(s, m1, 7, v0 * s[m2][7] + v3 * s[m2][8]
                     + v6 * s[m2][9]) : s \in {h6}})
                 h8 == After({Store(s, m1, 8, v1 * s[m2][7] + v4 * s[m2][8]
                     + v7 * s[m2][9]) : s \in {h7}})
                 h9 == After({Store(s, m1, 9, v2 * s[m2][7] + v5 * s[m2][8]
                     + v8 * s[m2][9]) : s \in {h8}})
             IN  h9
      [] type = "Mat4" ->
             LET v0 == h[m1][1] * h[m2][1] + h[m1][5] * h[m2][2] + h[m1][9] * h[m2][3]
                     + h[m1][13] * h[m2][4]
                 v1 == h[m1][2] * h[m2][1] + h[m1][6] * h[m2][2] + h[m1][10] * h[m2][3]
                     + h[m1][14] * h[m2][4]
                 v2 == h[m1][3] * h[m2][1] + h[m1][7] * h[m2][2] + h[m1][11] * h[m2][3]
                     + h[m1][15] * h[m2][4]
                 v3 == h[m1][4] * h[m2][1] + h[m1][8] * h[m2][2] + h[m1][12] * h[m2][3]
                     + h[m1][16] * h[m2][4]
                 v4 == h[m1][1] * h[m2][5] + h[m1][5] * h[m2][6] + h[m1][9] * h[m2][7]
                     + h[m1][13] * h[m2][8]
                 v5 == h[m1][2] * h[m2][5] + h[m1][6] * h[m2][6] + h[m1][10] * h[m2][7]
                     + h[m1][14] * h[m2][8]
                 v6 == h[m1][3] * h[m2][5] + h[m1][7] * h[m2][6] + h[m1][11] * h[m2][7]
                     + h[m1][15] * h[m2][8]
                 v7 == h[m1][4] * h[m2][5] + h[m1][8] * h[m2][6] + h[m1][12] * h[m2][7]
                     + h[m1][16] * h[m2][8]
                 v8 == h[m1][1] * h[m2][9] + h[m1][5] * h[m2][10] + h[m1][9] * h[m2][11]
                     + h[m1][13] * h[m2][12]
                 v9 == h[m1][2] * h[m2][9] + h[m1][6] * h[m2][10] + h[m1][10] * h[m2][11]
                     + h[m1][14] * h[m2][12]
                 v10 == h[m1][3] * h[m2][9] + h[m1][7] * h[m2][10] + h[m1][11] * h[m2][11]
                     + h[m1][15] * h[m2][12]
                 v11 == h[m1][4] * h[m2][9] + h[m1][8] * h[m2][10] + h[m1][12] * h[m2][11]
                     + h[m1][16] * h[m2][12]
                 v12 == h[m1][1] * h[m2][13] + h[m1][5] * h[m2][14] + h[m1][9] * h[m2][15]
                     + h[m1][13] * h[m2][16]
                 v13 == h[m1][2] * h[m2][13] + h[m1][6] * h[m2][14] + h[m1][10] * h[m2][15]
                     + h[m1][14] * h[m2][16]
                 v14 == h[m1][3] * h[m2][13] + h[m1][7] * h[m2][14] + h[m1][11] * h[m2][15]
                     + h[m1][15] * h[m2][16]
                 v15 == h[m1][4] * h[m2][13] + h[m1][8] * h[m2][14] + h[m1][12] * h[m2][15]
                     + h[m1][16] * h[m2][16]
                 h1 == After({Store(s, m1, 1, v0) : s \in {h}})
                 h2 == After({Store(s, m1, 2, v1) : s \in {h1}})
                 h3 == After({Store(s, m1, 3, v2) : s \in {h2}})
                 h4 == After({Store(s, m1, 4, v3) : s \in {h3}})
                 h5 == After({Store(s, m1, 5, v4) : s \in {h4}})
                 h6 == After({Store(s, m1, 6, v5) : s \in {h5}})
                 h7 == After({Store(s, m1, 7, v6) : s \in {h6}})
                 h8 == After({Store(s, m1, 8, v7) : s \in {h7}})
                 h9 == After({Store(s, m1, 9, v8) : s \in {h8}})
                 h10 == After({Store(s, m1, 10, v9) : s \in {h9}})
                 h11 == After({Store(s, m1, 11, v10) : s \in {h10}})
                 h12 == After({Store(s, m1, 12, v11) : s \in {h11}})
                 h13 == After({Store(s, m1, 13, v12) : s \in {h12}})
                 h14 == After({Store(s, m1, 14, v13) : s \in {h13}})
                 h15 == After({Store(s, m1, 15, v14) : s \in {h14}})
                 h16 == After({Store(s, m1, 16, v15) : s \in {h15}})
             IN  h16
      [] type = "Mat3x4" ->
             LET v0 == h[m1][1]
                 v1 == h[m1][2]
                 v2 == h[m1][3]
                 v3 == h[m1][4]
                 v4 == h[m1][5]
                 v5 == h[m1][6]
                 v6 == h[m1][7]
                 v7 == h[m1][8]
                 v8 == h[m1][9]
                 v9 == h[m1][10]
                 v10 == h[m1][11]
                 v11 == h[m1][12]
                 h1 == After({Store(s, m1, 1, v0 * s[m2][1] + v3 * s[m2][2]
                     + v6 * s[m2][3]) : s \in {h}})
                 h2 == After({Store(s, m1, 2, v1 * s[m2][1] + v4 * s[m2][2]
                     + v7 * s[m2][3]) : s \in {h1}})
                 h3 == After({Store(s, m1, 3, v2 * s[m2][1] + v5 * s[m2][2]
                     + v8 * s[m2][3]) : s \in {h2}})
                 h4 == After({Store(s, m1, 4, v0 * s[m2][4] + v3 * s[m2][5]
                     + v6 * s[m2][6]) : s \in {h3}})
                 h5 == After({Store(s, m1, 5, v1 * s[m2][4] + v4 * s[m2][5]
                     + v7 * s[m2][6]) : s \in {h4}})
                 h6 == After({Store(s, m1, 6, v2 * s[m2][4] + v5 * s[m2][5]
                     + v8 * s[m2][6]) : s \in {h5}})
                 h7 == After({Store(s, m1, 7, v0 * s[m2][7] + v3 * s[m2][8]
                     + v6 * s[m2][9]) : s \in {h6}})
                 h8 == After({Store(s, m1, 8, v1 * s[m2][7] + v4 * s[m2][8]
                     + v7 * s[m2][9]) : s \in {h7}})
                 h9 == After({Store(s, m1, 9, v2 * s[m2][7] + v5 * s[m2][8]
                     + v8 * s[m2][9]) : s \in {h8}})
                 h10 == After({Store(s, m1, 10, v0 * s[m2][10] + v3 * s[m2][11] + v6 * s[m2][12]
                     + v9) : s \in {h9}})
                 h11 == After({Store(s, m1, 11, v1 * s[m2][10] + v4 * s[m2][11] + v7 * s[m2][12]
                     + v10) : s \in {h10}})
                 h12 == After({Store(s, m1, 12, v2 * s[m2][10] + v5 * s[m2][11] + v8 * s[m2][12]
                     + v11) : s \in {h11}})
             IN  h12
      [] type = "Mat2x3" ->
             LET v0 == h[m1][1]
                 v1 == h[m1][2]
                 v2 == h[m1][3]
                 v3 == h[m1][4]
                 v4 == h[m1][5]
                 v5 == h[m1][6]
                 h1 == After({Store(s, m1, 1, v0 * s[m2][1] + v2 * s[m2][2]) : s \in {h}})
                 h2 == After({Store(s, m1, 2, v1 * s[m2][1] + v3 * s[m2][2]) : s \in {h1}})
                 h3 == After({Store(s, m1, 3, v0 * s[m2][3] + v2 * s[m2][4]) : s \in {h2}})
                 h4 == After({Store(s, m1, 4, v1 * s[m2][3] + v3 * s[m2][4]) : s \in {h3}})
                 h5 == After({Store(s, m1, 5, v0 * s[m2][5] + v2 * s[m2][6] + v4) : s \in {h4}})
                 h6 == After({Store(s, m1, 6, v1 * s[m2][5] + v3 * s[m2][6] + v5) : s \in {h5}})
             IN  h6

\* Mat2.TransposeOf, Mat3.TransposeOf, Mat4.TransposeOf
TransposeOf(type, h, m1, m2) ==
    CASE type = "Mat2" ->
             LET h1 == After({[s EXCEPT ![m1][1] = s[m2][1], ![m1][2] = s[m2][3], ![m1][3] = s[m2][2],
                     ![m1][4] = s[m2][4]] : s \in {h}})
             IN  h1
      [] type = "Mat3" ->
             LET h1 == After({Store(s, m1, 1, s[m2][1]) : s \in {h}})
                 h2 == After({Store(s, m1, 2, s[m2][4]) : s \in {h1}})
                 h3 == After({Store(s, m1, 3, s[m2][7]) : s \in {h2}})
                 h4 == After({Store(s, m1, 4, s[m2][2]) : s \in {h3}})
                 h5 == After({Store(s, m1, 5, s[m2][5]) : s \in {h4}})
                 h6 == After({Store(s, m1, 6, s[m2][8]) : s \in {h5}})
                 h7 == After({Store(s, m1, 7, s[m2][3]) : s \in {h6}})
                 h8 == After({Store(s, m1, 8, s[m2][6]) : s \in {h7}})
                 h9 == After({Store(s, m1, 9, s[m2][9]) : s \in {h8}})
             IN  h9
      [] type = "Mat4" ->
             LET h1 == After({Store(s, m1, 1, s[m2][1]) : s \in {h}})
                 h2 == After({Store(s, m1, 2, s[m2][5]) : s \in {h1}})
                 h3 == After({Store(s, m1, 3, s[m2][9]) : s \in {h2}})
                 h4 == After({Store(s, m1, 4, s[m2][13]) : s \in {h3}})
                 h5 == After({Store(s, m1, 5, s[m2][2]) : s \in {h4}})
                 h6 == After({Store(s, m1, 6, s[m2][6]) : s \in {h5}})
                 h7 == After({Store(s, m1, 7, s[m2][10]) : s \in {h6}})
                 h8 == After({Store(s, m1, 8, s[m2][14]) : s \in {h7}})
                 h9 == After({Store(s, m1, 9, s[m2][3]) : s \in {h8}})
                 h10 == After({Store(s, m1, 10, s[m2][7]) : s \in {h9}})
                 h11 == After({Store(s, m1, 11, s[m2][11]) : s \in {h10}})
                 h12 == After({Store(s, m1, 12, s[m2][15]) : s \in {h11}})
                 h13 == After({Store(s, m1, 13, s[m2][4]) : s \in {h12}})
                 h14 == After({Store(s, m1, 14, s[m2][8]) : s \in {h13}})
                 h15 == After({Store(s, m1, 15, s[m2][12]) : s \in {h14}})
                 h16 == After({Store(s, m1, 16, s[m2][16]) : s \in {h15}})
             IN  h16

\* Mat2.Transpose, Mat3.Transpose, Mat4.Transpose
Transpose(type, h, m1) ==
    CASE type = "Mat2" ->
             LET h1 == After({[s EXCEPT ![m1][2] = s[m1][3], ![m1][3] = s[m1][2]] : s \in {h}})
             IN  h1
      [] type = "Mat3" ->
             LET h1 == After({[s EXCEPT ![m1][2] = s[m1][4], ![m1][3] = s[m1][7], ![m1][4] = s[m1][2],
                     ![m1][6] = s[m1][8], ![m1][7] = s[m1][3], ![m1][8] = s[m1][6]] : s \in {h}})
             IN  h1
      [] type = "Mat4" ->
             LET h1 == After({[s EXCEPT ![m1][2] = s[m1][5], ![m1][3] = s[m1][9], ![m1][4] = s[m1][13],
                     ![m1][5] = s[m1][2], ![m1][7] = s[m1][10], ![m1][8] = s[m1][14],
                     ![m1][9] = s[m1][3], ![m1][10] = s[m1][7], ![m1][12] = s[m1][15],
                     ![m1][13] = s[m1][4], ![m1][14] = s[m1][8], ![m1][15] = s[m1][12]] : s \in {h}})
             IN  h1

\* Mat3x4.Mat4In, Mat2x3.Mat3In: m2 = m1 embedded
EmbedIn(type, h, m1, m2) ==
    CASE type = "Mat3x4" ->
             LET h1 == After({[s EXCEPT ![m2][1] = s[m1][1], ![m2][5] = s[m1][4], ![m2][9] = s[m1][7],
                     ![m2][13] = s[m1][10]] : s \in {h}})
                 h2 == After({[s EXCEPT ![m2][2] = s[m1][2], ![m2][6] = s[m1][5], ![m2][10] = s[m1][8],
                     ![m2][14] = s[m1][11]] : s \in {h1}})
                 h3 == After({[s EXCEPT ![m2][3] = s[m1][3], ![m2][7] = s[m1][6], ![m2][11] = s[m1][9],
                     ![m2][15] = s[m1][12]] : s \in {h2}})
                 h4 == After({[s EXCEPT ![m2][4] = 0, ![m2][8] = 0, ![m2][12] = 0,
                     ![m2][16] = 1] : s \in {h3}})
             IN  h4
      [] type = "Mat2x3" ->
             LET h1 == After({[s EXCEPT ![m2][1] = s[m1][1], ![m2][4] = s[m1][3],
                     ![m2][7] = s[m1][5]] : s \in {h}})
                 h2 == After({[s EXCEPT ![m2][2] = s[m1][2], ![m2][5] = s[m1][4],
                     ![m2][8] = s[m1][6]] : s \in {h1}})
                 h3 == After({[s EXCEPT ![m2][3] = 0, ![m2][6] = 0, ![m2][9] = 1] : s \in {h2}})
             IN  h3

\* Quaternion.Dot
QuatDot(q1, q2) ==
    q1.W * q2.W + q1.V[1] * q2.V[1] + q1.V[2] * q2.V[2] + q1.V[3] * q2.V[3]

\* Quaternion.Scale
QuatScale(q1, c) == Quat(q1.W * c, <<q1.V[1] * c, q1.V[2] * c, q1.V[3] * c>>)

\* Quaternion.Inverse
QuatInverse(q1) ==
    LET c == Conjugated(q1)
    IN  QuatScale(c, Recip(QuatDot(q1, q1)))

\* A MulOf that takes the cross product of q3.V and q2.V.
QuatMulOfCrossReversed(h, q1, q2, q3) ==
    LET h1 == [h EXCEPT ![q1].W = h[q2].W * h[q3].W - Vec3Dot(h[q2].V, h[q3].V)]
        h2 == [h1 EXCEPT ![q1].V = Vec3Cross(h1[q3].V, h1[q2].V)]
        h3 == [h2 EXCEPT ![q1].V = Vec3AddScaledVec(h2[q1].V, h2[q2].W, h2[q3].V)]
        h4 == [h3 EXCEPT ![q1].V = Vec3AddScaledVec(h3[q1].V, h3[q3].W, h3[q2].V)]
    IN  h4

\* Quaternion.MulOf: q1 = q2 * q3, in four statements.  The Vec3 methods
\* compute their result from their arguments before they store it.
QuatMulOf(h, q1, q2, q3) ==
    LET h1 == [h EXCEPT ![q1].W = h[q2].W * h[q3].W - Vec3Dot(h[q2].V, h[q3].V)]
        h2 == [h1 EXCEPT ![q1].V = Vec3Cross(h1[q2].V, h1[q3].V)]
        h3 == [h2 EXCEPT ![q1].V = Vec3AddScaledVec(h2[q1].V, h2[q2].W, h2[q3].V)]
        h4 == [h3 EXCEPT ![q1].V = Vec3AddScaledVec(h3[q1].V, h3[q3].W, h3[q2].V)]
    IN  h4

\* Quaternion.MulWith on the store: w and v are copies of q1, q2 is read
\* through its name.
QuatMulWithOn(h, q1, q2) ==
    LET w == h[q1].W
        v == h[q1].V
        h1 == [h EXCEPT ![q1].W = w * h[q2].W - Vec3Dot(v, h[q2].V)]
        h2 == [h1 EXCEPT ![q1].V = Vec3Cross(v, h1[q2].V)]
        h3 == [h2 EXCEPT ![q1].V = Vec3AddScaledVec(h2[q1].V, w, h2[q2].V)]
        h4 == [h3 EXCEPT ![q1].V = Vec3AddScaledVec(h3[q1].V, h3[q2].W, v)]
    IN  h4

\* Quaternion.ConjugateOf and Quaternion.Conjugate
ConjugateOf(h, q1, q2) ==
    LET h1 == [h EXCEPT ![q1].W = h[q2].W]
        h2 == [h1 EXCEPT ![q1].V = Vec3Mul(h1[q2].V, -1)]
    IN  h2

Conjugate(h, q1) == [h EXCEPT ![q1].V = Vec3Mul(h[q1].V, -1)]

\* Quaternion.ScaleWith
QuatScaleWith(h, q1, c) ==
    LET h1 == [h EXCEPT ![q1].W = h[q1].W * c]
        h2 == [h1 EXCEPT ![q1].V = Vec3Mul(h1[q1].V, c)]
    IN  h2

\* Quaternion.InverseOf and Quaternion.Invert
QuatInverseOf(h, q1, q2) ==
    LET h1 == ConjugateOf(h, q1, q2)
    IN  QuatScaleWith(h1, q1, Recip(QuatDot(h1[q2], h1[q2])))

QuatInvert(h, q1) ==
    LET h1 == Conjugate(h, q1)
    IN  QuatScaleWith(h1, q1, Recip(QuatDot(h1[q1], h1[q1])))

\* The names of the matrices and quaternions of the store that the
\* operations take; e is the matrix Mat4In and Mat3In fill.
Objs == {"a", "b", "d"}

\* The factors of MulOf and MulWith.
Scalars == {-1, 2}

\* The types whose methods are called on the store.
StoreTypes == MatTypes \cup {"Quaternion"}

\* The inputs of the object a: the matrices of InputsOf, or quaternions of
\* length 1 and of length 2.
FirstInputs(type) ==
    IF type = "Quaternion"
    THEN {Quat(0, <<1, 0, 0>>), Quat(0, <<0, 0, -1>>), Quat(1, <<1, 1, 1>>)}
    ELSE InputsOf(type)

\* The object b: a shear (a translation for Mat2x3) that commutes with none
\* of the other shears and is not symmetric, or the quaternion j.
SecondInput(type) ==
    CASE type = "Mat2" -> <<1, 1,  0, 1>>
      [] type = "Mat3" -> <<1, 1, 0,  0, 1, 1,  0, 0, 1>>
      [] type = "Mat4" -> <<1, 1, 0, 0,  0, 1, 1, 0,  0, 0, 1, 1,  0, 0, 0, 1>>
      [] type = "Mat3x4" -> <<1, 1, 0,  0, 1, 1,  0, 0, 1,  1, 0, 0>>
      [] type = "Mat2x3" -> <<1, 1,  0, 1,  1, 0>>
      [] type = "Quaternion" -> Quat(0, <<0, 1, 0>>)

\* The object d: a quarter turn about the z axis (followed by a translation
\* in the affine types), or the quaternion k.
ThirdInput(type) ==
    CASE type = "Mat2" -> <<0, 1,  -1, 0>>
      [] type = "Mat3" -> <<0, 1, 0,  -1, 0, 0,  0, 0, 1>>
      [] type = "Mat4" -> <<0, 1, 0, 0,  -1, 0, 0, 0,  0, 0, 1, 0,  0, 0, 0, 1>>
      [] type = "Mat3x4" -> <<0, 1, 0,  -1, 0, 0,  0, 0, 1,  0, 1, 1>>
      [] type = "Mat2x3" -> <<0, 1,  -1, 0,  1, 1>>
      [] type = "Quaternion" -> Quat(0, <<0, 0, 1>>)

\* The objects of a run; e holds 10, 20, 30, ... before Mat4In or Mat3In
\* fills it.
StoreOf(type, a) ==
    [a |-> a,
     b |-> SecondInput(type),
     d |-> ThirdInput(type),
     e |-> CASE type = "Mat3x4" -> LayoutInput("Mat4")
             [] type = "Mat2x3" -> LayoutInput("Mat3")
             [] OTHER -> <<>>]

\* The names a call was made with: m1 is the object written, m2 and m3 the
\* objects read (Nil where the method has no such argument), c the factor.
Args(m1, m2, m3, c) == [m1 |-> m1, m2 |-> m2, m3 |-> m3, c |-> c]

\* An in-place call on the objects as they were set up: it returns nothing
\* and leaves the store h.
InPlaceStep(op, type, arg, h) ==
    /\ last.op = "Literal"
    /\ MathStep(op, type, arg, <<>>, h, 1)

AddOfCall(type, m1, m2, m3) ==
    InPlaceStep("AddOf", type, Args(m1, m2, m3, Nil), AddOf(type, last.m, m1, m2, m3))

AddWithCall(type, m1, m2) ==
    InPlaceStep("AddWith", type, Args(m1, m2, Nil, Nil), AddWith(type, last.m, m1, m2))

SubOfCall(type, m1, m2, m3) ==
    InPlaceStep("SubOf", type, Args(m1, m2, m3, Nil), SubOf(type, last.m, m1, m2, m3))

SubWithCall(type, m1, m2) ==
    InPlaceStep("SubWith", type, Args(m1, m2, Nil, Nil), SubWith(type, last.m, m1, m2))

MulOfCall(type, m1, m2, c) ==
    InPlaceStep("MulOf", type, Args(m1, m2, Nil, c), MulOf(type, last.m, m1, m2, c))

ScalarMulWithCall(type, m1, c) ==
    InPlaceStep("MulWith", type, Args(m1, Nil, Nil, c), ScalarMulWith(type, last.m, m1, c))

\* m1.Mul2Of(m2, m3), m1.Mul3Of(m2, m3), ...
ProductIntoCall(type, m1, m2, m3) ==
    InPlaceStep("ProductOf", type, Args(m1, m2, m3, Nil),
                ProductInto(type, last.m, m1, m2, m3))

\* m1.Mul2With(m2), m1.Mul3With(m2), ...
ProductWithCall(type, m1, m2) ==
    InPlaceStep("ProductWith", type, Args(m1, m2, Nil, Nil),
                ProductWith(type, last.m, m1, m2))

TransposeOfCall(type, m1, m2) ==
    InPlaceStep("TransposeOf", type, Args(m1, m2, Nil, Nil),
                TransposeOf(type, last.m, m1, m2))

TransposeCall(type, m1) ==
    InPlaceStep("Transpose", type, Args(m1, Nil, Nil, Nil), Transpose(type, last.m, m1))

\* m1.InverseOf(m2): the method reads m2 into locals, or builds the whole
\* result, before it stores anything in m1. Called where 1/det is an integer.
StoreInverseOfCall(type, m1, m2) ==
    /\ last.type = type
    /\ Det(type, last.m[m2]) \in {-1, 0, 1}
    /\ InPlaceStep("InverseOf", type, Args(m1, m2, Nil, Nil),
                   [last.m EXCEPT ![m1] = InverseOf(type, last.m[m1], last.m[m2])])

\* m1.Invert()
StoreInvertCall(type, m1) ==
    /\ last.type = type
    /\ Det(type, last.m[m1]) \in {-1, 0, 1}
    /\ InPlaceStep("Invert", type, Args(m1, Nil, Nil, Nil),
                   [last.m EXCEPT ![m1] = Invert(type, last.m[m1])])

\* m2.Mat4In(&e), m2.Mat3In(&e)
EmbedInCall(type, m2) ==
    InPlaceStep("EmbedIn", type, Args("e", m2, Nil, Nil), EmbedIn(type, last.m, m2, "e"))

QuatMulOfCall(q1, q2, q3) ==
    InPlaceStep("QuatMulOf", "Quaternion", Args(q1, q2, q3, Nil),
                QuatMulOf(last.m, q1, q2, q3))

QuatMulWithOnCall(q1, q2) ==
    InPlaceStep("QuatMulWith", "Quaternion", Args(q1, q2, Nil, Nil),
                QuatMulWithOn(last.m, q1, q2))

ConjugateOfCall(q1, q2) ==
    InPlaceStep("ConjugateOf", "Quaternion", Args(q1, q2, Nil, Nil),
                ConjugateOf(last.m, q1, q2))

ConjugateCall(q1) ==
    InPlaceStep("Conjugate", "Quaternion", Args(q1, Nil, Nil, Nil), Conjugate(last.m, q1))

\* q1.InverseOf(q2) and q1.Invert(), called on quaternions of length 1.
QuatInverseOfCall(q1, q2) ==
    /\ last.type = "Quaternion"
    /\ QuatDot(last.m[q2], last.m[q2]) = 1
    /\ InPlaceStep("QuatInverseOf", "Quaternion", Args(q1, q2, Nil, Nil),
                   QuatInverseOf(last.m, q1, q2))

QuatInvertCall(q1) ==
    /\ last.type = "Quaternion"
    /\ QuatDot(last.m[q1], last.m[q1]) = 1
    /\ InPlaceStep("QuatInvert", "Quaternion", Args(q1, Nil, Nil, Nil),
                   QuatInvert(last.m, q1))

\* var a, b, d T with a and b set to inputs.
InitInPlace ==
    /\ parent = <<>>
    /\ children = <<>>
    /\ position = <<>>
    /\ rotation = <<>>
    /\ scale = <<>>
    /\ transformValid = <<>>
    /\ transform = <<>>
    /\ worldTransform = <<>>
    /\ crashed = FALSE
    /\ \E type \in StoreTypes : \E a \in FirstInputs(type) :
          last = MathCall("Literal", type, <<>>, Nil, <<>>, StoreOf(type, a), 0)

NextInPlace ==
    \/ \E type \in SquareTypes, m1, m2, m3 \in Objs : AddOfCall(type, m1, m2, m3)
    \/ \E type \in SquareTypes, m1, m2 \in Objs : AddWithCall(type, m1, m2)
    \/ \E type \in SquareTypes, m1, m2, m3 \in Objs : SubOfCall(type, m1, m2, m3)
    \/ \E type \in SquareTypes, m1, m2 \in Objs : SubWithCall(type, m1, m2)
    \/ \E type \in SquareTypes, c \in Scalars :
          \E m1, m2 \in Objs : MulOfCall(type, m1, m2, c)
    \/ \E type \in SquareTypes, c \in Scalars :
          \E m1 \in Objs : ScalarMulWithCall(type, m1, c)
    \/ \E type \in MatTypes, m1, m2, m3 \in Objs : ProductIntoCall(type, m1, m2, m3)
    \/ \E type \in MatTypes, m1, m2 \in Objs : ProductWithCall(type, m1, m2)
    \/ \E type \in SquareTypes, m1, m2 \in Objs : TransposeOfCall(type, m1, m2)
    \/ \E type \in SquareTypes, m1 \in Objs : TransposeCall(type, m1)
    \/ \E type \in SquareTypes, m1, m2 \in Objs : StoreInverseOfCall(type, m1, m2)
    \/ \E type \in SquareTypes, m1 \in Objs : StoreInvertCall(type, m1)
    \/ \E type \in {"Mat3x4", "Mat2x3"}, m2 \in Objs : EmbedInCall(type, m2)
    \/ \E q1, q2, q3 \in Objs : QuatMulOfCall(q1, q2, q3)
    \/ \E q1, q2 \in Objs : QuatMulWithOnCall(q1, q2)
    \/ \E q1, q2 \in Objs : ConjugateOfCall(q1, q2)
    \/ \E q1 \in Objs : ConjugateCall(q1)
    \/ \E q1, q2 \in Objs : QuatInverseOfCall(q1, q2)
    \/ \E q1 \in Objs : QuatInvertCall(q1)

SpecInPlace == InitInPlace /\ [][NextInPlace]_vars

\* The value the value-returning operation that the call c mirrors returns
\* for the values the arguments of c had when c was made.
Mirrored(c) ==
    LET h == c.recv
        t == c.type
        x == c.arg
    IN  CASE c.op = "AddOf" -> Add(t, h[x.m2], h[x.m3])
          [] c.op = "AddWith" -> Add(t, h[x.m1], h[x.m2])
          [] c.op = "SubOf" -> Sub(t, h[x.m2], h[x.m3])
          [] c.op = "SubWith" -> Sub(t, h[x.m1], h[x.m2])
          [] c.op = "MulOf" -> Mul(t, h[x.m2], x.c)
          [] c.op = "MulWith" -> Mul(t, h[x.m1], x.c)
          [] c.op = "ProductOf" -> ProductOf(t, h[x.m2], h[x.m3])
          [] c.op = "ProductWith" -> ProductOf(t, h[x.m1], h[x.m2])
          [] c.op = "TransposeOf" -> Transposed(t, h[x.m2])
          [] c.op = "Transpose" -> Transposed(t, h[x.m1])
          [] c.op = "InverseOf" -> Inverse(t, h[x.m2])
          [] c.op = "Invert" -> Inverse(t, h[x.m1])
          [] c.op = "EmbedIn" ->
                 IF t = "Mat3x4" THEN Mat3x4Mat4(h[x.m2]) ELSE Mat2x3Mat3(h[x.m2])
          [] c.op = "QuatMulOf" -> QuatMul(h[x.m2], h[x.m3])
          [] c.op = "QuatMulWith" -> QuatMul(h[x.m1], h[x.m2])
          [] c.op = "ConjugateOf" -> Conjugated(h[x.m2])
          [] c.op = "Conjugate" -> Conjugated(h[x.m1])
          [] c.op = "QuatInverseOf" -> QuatInverse(h[x.m2])
          [] c.op = "QuatInvert" -> QuatInverse(h[x.m1])

InPlaceOps ==
    {"AddOf", "AddWith", "SubOf", "SubWith", "MulOf", "MulWith", "ProductOf",
     "ProductWith", "TransposeOf", "Transpose", "InverseOf", "Invert", "EmbedIn",
     "QuatMulOf", "QuatMulWith", "ConjugateOf", "Conjugate", "QuatInverseOf",
     "QuatInvert"}

\* The call c left the mirrored value in its destination and every other
\* object as it was.
MirrorsValue(c) ==
    /\ c.m[c.arg.m1] = Mirrored(c)
    /\ \A o \in (DOMAIN c.m) \ {c.arg.m1} : c.m[o] = c.recv[o]

(***************************************************************************)
(* C22: an in-place variant whose destination is none of its arguments     *)
(* leaves in the destination the value that the value-returning operation  *)
(* it mirrors returns for the same arguments, and changes no other object: *)
(* AddOf/AddWith, SubOf/SubWith, MulOf/MulWith, MulNOf/MulNWith,           *)
(* TransposeOf/Transpose, InverseOf/Invert, Mat4In/Mat3In and the          *)
(* quaternion MulOf/MulWith, InverseOf/Invert, ConjugateOf/Conjugate.      *)
(***************************************************************************)
C22_InPlaceMirrorsValueOp ==
    (last.op \in InPlaceOps /\ last.arg.m1 \notin {last.arg.m2, last.arg.m3}) =>
        MirrorsValue(last)

\* d.Mul4Of(a, b) with the shears a and b: d, which held a quarter turn, is
\* the product a * b, which is not b * a.
C22_Witness ==
    /\ last.op = "ProductOf"
    /\ last.type = "Mat4"
    /\ last.arg = Args("d", "a", "b", Nil)
    /\ last.m["d"] = Mul4(last.recv["a"], last.recv["b"])
    /\ last.m["d"] # Mul4(last.recv["b"], last.recv["a"])
    /\ last.recv["d"] = ThirdInput("Mat4")

\* The last call has an argument that is the object it writes.
Aliased == last.arg.m1 \in {last.arg.m2, last.arg.m3}

\* m.InverseOf(m), m.Mul4With(m) and the Mat2 m.TransposeOf(m) compute the
\* whole result before they store any of it: they mirror the value-returning
\* operation also on their own receiver.
AliasSafeCalls ==
    (/\ \/ last.op = "InverseOf"
        \/ last.op = "ProductWith" /\ last.type = "Mat4"
        \/ last.op = "TransposeOf" /\ last.type = "Mat2"
     /\ Aliased) => MirrorsValue(last)

(***************************************************************************)
(* C29: Mul2Of, Mul3Of, Mul4Of, Mul3x4Of, Mul2x3Of, TransposeOf,           *)
(* InverseOf, Mul4With and the quaternion MulOf and MulWith leave the      *)
(* value of the value-returning operation in the receiver also when an     *)
(* argument is the receiver itself.                                        *)
(***************************************************************************)
C29_AliasedCallsMirrorValueOp ==
    (/\ \/ last.op \in {"ProductOf", "TransposeOf", "InverseOf", "QuatMulOf",
                        "QuatMulWith"}
        \/ last.op = "ProductWith" /\ last.type = "Mat4"
     /\ Aliased) => MirrorsValue(last)

(***************************************************************************)
(* math: the camera helpers LookAtV, LookAt, Project and UnProject.        *)
(***************************************************************************)
Vec3Sub(a, b) == <<a[1] - b[1], a[2] - b[2], a[3] - b[3]>>

\* Vec3.Len, for the vectors whose length is a whole number.
Vec3Len(v) == CHOOSE l \in 0..Vec3Dot(v, v) : l * l = Vec3Dot(v, v)

\* Vec3.Normalized, for the same vectors.
Vec3Normalized(v) ==
    LET l == Vec3Len(v)
    IN  <<v[1] \div l, v[2] \div l, v[3] \div l>>

\* A LookAtV that takes up x forward for the side.
LookAtVLeftHanded(eye, center, up) ==
    LET forward == Vec3Normalized(Vec3Sub(center, eye))
        side == Vec3Normalized(Vec3Cross(up, forward))
        recomputedUp == Vec3Cross(side, forward)
    IN  <<side[1], recomputedUp[1], -forward[1], 0,
          side[2], recomputedUp[2], -forward[2], 0,
          side[3], recomputedUp[3], -forward[3], 0,
          -Vec3Dot(side, eye), -Vec3Dot(recomputedUp, eye), Vec3Dot(forward, eye), 1>>

\* LookAtV: the rows of the rotation are the basis vectors, the translation
\* is the negated eye in that basis.
LookAtV(eye, center, up) ==
    LET forward == Vec3Normalized(Vec3Sub(center, eye))
        side == Vec3Normalized(Vec3Cross(forward, up))
        recomputedUp == Vec3Cross(side, forward)
    IN  <<side[1], recomputedUp[1], -forward[1], 0,
          side[2], recomputedUp[2], -forward[2], 0,
          side[3], recomputedUp[3], -forward[3], 0,
          -Vec3Dot(side, eye), -Vec3Dot(recomputedUp, eye), Vec3Dot(forward, eye), 1>>

\* LookAt: LookAtV of the vectors made of the nine scalars.
LookAt(eyeX, eyeY, eyeZ, centerX, centerY, centerZ, upX, upY, upZ) ==
    LookAtV(<<eyeX, eyeY, eyeZ>>, <<centerX, centerY, centerZ>>, <<upX, upY, upZ>>)

\* v has a length that is a whole number and not zero.
WholeLen(v) == \E l \in 1..Vec3Dot(v, v) : l * l = Vec3Dot(v, v)

\* The eye and the center differ, up is not along the line of sight, and
\* the two vectors that are normalized have whole lengths.
CanLookAt(eye, center, up) ==
    /\ WholeLen(Vec3Sub(center, eye))
    /\ WholeLen(Vec3Cross(Vec3Normalized(Vec3Sub(center, eye)), up))

\* A run is one call on the inputs, or a Project and the UnProject of what
\* it returned.
LookAtVCall(eye, center, up) ==
    /\ last.op = "Literal"
    /\ CanLookAt(eye, center, up)
    /\ MathStep("LookAtV", "Camera", <<eye, center, up>>, LookAtV(eye, center, up),
                last.m, 0)

LookAtCall(eye, center, up) ==
    /\ last.op = "Literal"
    /\ CanLookAt(eye, center, up)
    /\ MathStep("LookAt", "Camera",
                <<eye[1], eye[2], eye[3], center[1], center[2], center[3],
                  up[1], up[2], up[3]>>,
                LookAt(eye[1], eye[2], eye[3], center[1], center[2], center[3],
                       up[1], up[2], up[3]),
                last.m, 0)

\* The vector n / d: a point whose coordinates are fractions is held as whole
\* numerators over one denominator.
Scaled(n, d) == [n |-> n, d |-> d]

\* A Project that leaves z in [-1, 1].
ProjectKeepsZ(obj, modelview, projection, initialX, initialY, width, height) ==
    LET obj4 == Vec3To4(obj, 1)
        vpp == Mul4x1(projection, Mul4x1(modelview, obj4))
        w == vpp[4]
    IN  Scaled(<<2 * w * initialX + width * (vpp[1] + w),
                 2 * w * initialY + height * (vpp[2] + w),
                 2 * vpp[3]>>,
               2 * w)

\* Project: the point in clip space is divided by its w, and the normalized
\* device coordinates are mapped by (ndc * 0.5 + 0.5) * size + origin, z by
\* ndc * 0.5 + 0.5.
Project(obj, modelview, projection, initialX, initialY, width, height) ==
    LET obj4 == Vec3To4(obj, 1)
        vpp == Mul4x1(projection, Mul4x1(modelview, obj4))
        w == vpp[4]
    IN  Scaled(<<2 * w * initialX + width * (vpp[1] + w),
                 2 * w * initialY + height * (vpp[2] + w),
                 vpp[3] + w>>,
               2 * w)

\* UnProject: the window coordinates are mapped back to normalized device
\* coordinates, multiplied by the inverse of projection * modelview and
\* divided by w.
UnProject(win, modelview, projection, initialX, initialY, width, height) ==
    LET inv == Inverse("Mat4", Mul4(projection, modelview))
        d == win.d
        ndc4 == <<(2 * (win.n[1] - d * initialX) - d * width) * height,
                  (2 * (win.n[2] - d * initialY) - d * height) * width,
                  (2 * win.n[3] - d) * width * height,
                  d * width * height>>
        obj4 == Mul4x1(inv, ndc4)
    IN  Scaled(Vec4To3(obj4), obj4[4])

\* win := Project(obj, ...): the program holds obj.
ProjectCall(obj, modelview, projection, viewport) ==
    /\ last.op = "Literal"
    /\ MathStep("Project", "Camera",
                [modelview |-> modelview, projection |-> projection,
                 viewport |-> viewport],
                Project(obj, modelview, projection, viewport[1], viewport[2],
                        viewport[3], viewport[4]),
                obj, 0)

\* UnProject(&win, ...) with the win, the matrices and the viewport of the
\* Project before it.
UnProjectCall ==
    /\ last.op = "Project"
    /\ MathStep("UnProject", "Camera", last.arg @@ [win |-> last.ret],
                UnProject(last.ret, last.arg.modelview, last.arg.projection,
                          last.arg.viewport[1], last.arg.viewport[2],
                          last.arg.viewport[3], last.arg.viewport[4]),
                last.m, 0)

\* The six directions along the axes.
AxisDirs ==
    {<<1, 0, 0>>, <<-1, 0, 0>>, <<0, 1, 0>>, <<0, -1, 0>>, <<0, 0, 1>>, <<0, 0, -1>>}

Eyes == {<<0, 0, 0>>, <<1, 2, 3>>}

\* The centers lie one or two units from the eye along an axis.
CentersOf(eye) ==
    {Vec3AddScaledVec(eye, k, a) : k \in 1..2, a \in AxisDirs}

\* The up vectors: along an axis, longer than 1, or leaning to the line of
\* sight.
Ups == AxisDirs \cup {<<0, 2, 0>>, <<0, 1, 1>>, <<1, 0, -1>>}

\* The points projected: in front of, on and behind the eye plane.
Points == {<<x, y, z>> : x \in {-1, 0, 2}, y \in {-1, 0, 1}, z \in {-2, -1, 0, 1}}

\* The model views: the identity, a camera at (0, 0, 1) and the view from
\* (1, 2, 3) along x.
ModelViews ==
    {Ident4, SetTranslateVec3(Ident4, <<0, 0, -1>>),
     LookAtV(<<1, 2, 3>>, <<2, 2, 3>>, <<0, 1, 0>>)}

\* The projections: Ortho(-1, 1, -1, 1, 1, -1), Ortho2D(-1, 1, -1, 1) and a
\* perspective one, whose w is -z.
Projections ==
    {Ident4,
     <<1, 0, 0, 0,  0, 1, 0, 0,  0, 0, -1, 0,  0, 0, 0, 1>>,
     <<1, 0, 0, 0,  0, 1, 0, 0,  0, 0, -1, -1,  0, 0, -1, 0>>}

\* initialX, initialY, width, height
Viewports == {<<0, 0, 4, 2>>, <<1, -1, 3, 5>>}

InitCamera ==
    /\ parent = <<>>
    /\ children = <<>>
    /\ position = <<>>
    /\ rotation = <<>>
    /\ scale = <<>>
    /\ transformValid = <<>>
    /\ transform = <<>>
    /\ worldTransform = <<>>
    /\ crashed = FALSE
    /\ last = MathCall("Literal", "Camera", <<>>, Nil, <<>>, <<>>, 0)

NextCamera ==
    \/ \E eye \in Eyes, up \in Ups : \E center \in CentersOf(eye) :
          LookAtVCall(eye, center, up)
    \/ \E eye \in Eyes, up \in Ups : \E center \in CentersOf(eye) :
          LookAtCall(eye, center, up)
    \/ \E obj \in Points, modelview \in ModelViews, projection \in Projections,
          viewport \in Viewports : ProjectCall(obj, modelview, projection, viewport)
    \/ UnProjectCall

SpecCamera == InitCamera /\ [][NextCamera]_vars

\* The cases of TestLookAtV: eye, center, up and the matrix expected.
LookAtVTests ==
    {<<<<0, 0, 0>>, <<0, 0, -1>>, <<0, 1, 0>>, Ident4>>,
     <<<<0, 0, 0>>, <<1, 0, 0>>, <<0, 1, 0>>,
       <<0, 0, -1, 0,  0, 1, 0, 0,  1, 0, 0, 0,  0, 0, 0, 1>>>>,
     <<<<0, 0, 0>>, <<0, 0, 1>>, <<0, 1, 0>>,
       <<-1, 0, 0, 0,  0, 1, 0, 0,  0, 0, -1, 0,  0, 0, 0, 1>>>>,
     <<<<0, 0, 0>>, <<0, 0, -1>>, <<1, 0, 0>>,
       <<0, 1, 0, 0,  -1, 0, 0, 0,  0, 0, 1, 0,  0, 0, 0, 1>>>>,
     <<<<0, 0, 0>>, <<0, -1, 0>>, <<0, 0, -1>>,
       <<1, 0, 0, 0,  0, 0, 1, 0,  0, -1, 0, 0,  0, 0, 0, 1>>>>}

\* The view matrix m is the one of the claim for eye, center and up: its
\* rows are side, recomputedUp and -forward, each followed by the negated
\* eye along that row, it takes the eye to the origin and the center to the
\* negative z axis, and it keeps the handedness.
IsViewMatrix(m, eye, center, up) ==
    LET forward == Vec3Normalized(Vec3Sub(center, eye))
        side == Vec3Normalized(Vec3Cross(forward, up))
        recomputedUp == Vec3Cross(side, forward)
    IN  /\ Row("Mat4", m, 0) = Vec3To4(side, -Vec3Dot(side, eye))
        /\ Row("Mat4", m, 1) = Vec3To4(recomputedUp, -Vec3Dot(recomputedUp, eye))
        /\ Row("Mat4", m, 2) = Vec3To4(Vec3Mul(forward, -1), Vec3Dot(forward, eye))
        /\ Row("Mat4", m, 3) = <<0, 0, 0, 1>>
        /\ Mul4x1(m, Vec3To4(eye, 1)) = <<0, 0, 0, 1>>
        /\ Mul4x1(m, Vec3To4(center, 1)) = <<0, 0, -Vec3Len(Vec3Sub(center, eye)), 1>>
        /\ Det("Mat4", m) = 1
        /\ \A t \in LookAtVTests :
              <<eye, center, up>> = <<t[1], t[2], t[3]>> => m = t[4]

(***************************************************************************)
(* C23: LookAtV(eye, center, up) is the right-handed view matrix whose     *)
(* rotation rows are side, recomputedUp and -forward with the negated eye  *)
(* rotated into that basis as translation; it is the identity for the eye  *)
(* at the origin looking down -z with up +y, and the matrices TestLookAtV  *)
(* expects; LookAt of nine scalars is LookAtV of the three vectors.        *)
(***************************************************************************)
C23_LookAtBuildsViewMatrix ==
    /\ last.op = "LookAtV" =>
          IsViewMatrix(last.ret, last.arg[1], last.arg[2], last.arg[3])
    /\ last.op = "LookAt" =>
          /\ last.ret = LookAtV(<<last.arg[1], last.arg[2], last.arg[3]>>,
                                <<last.arg[4], last.arg[5], last.arg[6]>>,
                                <<last.arg[7], last.arg[8], last.arg[9]>>)
          /\ IsViewMatrix(last.ret, <<last.arg[1], last.arg[2], last.arg[3]>>,
                          <<last.arg[4], last.arg[5], last.arg[6]>>,
                          <<last.arg[7], last.arg[8], last.arg[9]>>)

\* LookAt(1,2,3, 1,2,1, 0,1,1): the eye is off the origin, the center two
\* units down -z and up leans to the line of sight; the matrix is the
\* translation by the negated eye.
C23_Witness ==
    /\ last.op = "LookAt"
    /\ last.arg = <<1, 2, 3,  1, 2, 1,  0, 1, 1>>
    /\ last.ret = SetTranslateVec3(Ident4, <<-1, -2, -3>>)

\* The point of clip space that Project divides.
Clip(obj, arg) == Mul4x1(arg.projection, Mul4x1(arg.modelview, Vec3To4(obj, 1)))

\* obj is inside the view frustum of the call with the arguments arg.
InFrustum(obj, arg) ==
    LET c == Clip(obj, arg)
    IN  c[4] > 0 /\ \A i \in 1..3 : Abs(c[i]) <= c[4]

\* The vectors a and b, each numerators over a denominator, are equal.
SameVec(a, b) ==
    /\ a.d # 0
    /\ b.d # 0
    /\ \A i \in 1..3 : a.n[i] * b.d = b.n[i] * a.d

(***************************************************************************)
(* C24: for a point inside the view frustum, Project returns a window      *)
(* point inside the viewport with z in [0, 1], namely                      *)
(* (ndc * 0.5 + 0.5) * size + origin, and UnProject of that window point   *)
(* with the same matrices and viewport returns the point.                  *)
(***************************************************************************)
C24_UnProjectInvertsProject ==
    /\ (last.op = "Project" /\ InFrustum(last.m, last.arg)) =>
          LET c == Clip(last.m, last.arg)
              v == last.arg.viewport
          IN  /\ SameVec(last.ret,
                         Scaled(<<(c[1] + c[4]) * v[3] + 2 * c[4] * v[1],
                                  (c[2] + c[4]) * v[4] + 2 * c[4] * v[2],
                                  c[3] + c[4]>>, 2 * c[4]))
              /\ 0 <= last.ret.n[3] /\ last.ret.n[3] <= last.ret.d
              /\ v[1] * last.ret.d <= last.ret.n[1]
              /\ last.ret.n[1] <= (v[1] + v[3]) * last.ret.d
    /\ (last.op = "UnProject" /\ InFrustum(last.m, last.arg)) =>
          SameVec(last.ret, Scaled(last.m, 1))

\* The point (2, 1, -2) under the perspective projection, whose w is 2: the
\* normalized device coordinates are (1, 1/2, 1/2), the window point in the
\* viewport (1, -1, 3, 5) is (4, 11/4, 3/4), and UnProject returns the point
\* with numerators and denominator both scaled.
C24_Witness ==
    /\ last.op = "UnProject"
    /\ last.m = <<2, 1, -2>>
    /\ last.arg.modelview = Ident4
    /\ last.arg.projection[12] = -1
    /\ last.arg.viewport = <<1, -1, 3, 5>>
    /\ SameVec(last.arg.win, Scaled(<<16, 11, 3>>, 4))
    /\ last.ret.d # 1
    /\ SameVec(last.ret, Scaled(<<2, 1, -2>>, 1))

(***************************************************************************)
(* dax: the Window and its scene.  The window held is last.m; a call       *)
(* records, as calls, the methods of scenes it called, in order.           *)
(***************************************************************************)
\* The nil Scener.
NoScene == [kind |-> "nil", id |-> 0]

\* The k-th Scene made by new(Scene).
DefaultScene(k) == [kind |-> "Scene", id |-> k]

\* The scenes of the application.
UserScenes == {[kind |-> "user", id |-> 1], [kind |-> "user", id |-> 2]}

\* The most Scenes that new(Scene) makes in a run.
MaxScenes == 3

\* The sizes of a window.
Sizes == {<<640, 480>>, <<800, 600>>, <<0, 0>>}

\* The call of method on the scene s with the arguments args.
SceneCall(method, s, args) == [method |-> method, scene |-> s, args |-> args]

\* A SetScene that sets the new scene up before it tears the previous one
\* down.
SetSceneSetupFirst(w, s) ==
    LET torn == IF w.scene # NoScene
                THEN <<SceneCall("TearDown", w.scene, <<>>)>>
                ELSE <<>>
        w1 == IF s # NoScene
              THEN [w EXCEPT !.scene = s]
              ELSE [w EXCEPT !.scene = DefaultScene(w.made + 1), !.made = w.made + 1]
    IN  [w |-> w1,
         calls |-> <<SceneCall("sceneSetup", w1.scene, <<>>)>> \o torn \o
                   <<SceneCall("OnResize", w1.scene, <<w1.width, w1.height>>)>>]

\* Window.SetScene: the window after the call and the calls made. made
\* counts the Scenes that new(Scene) has made.
SetScene(w, s) ==
    LET torn == IF w.scene # NoScene
                THEN <<SceneCall("TearDown", w.scene, <<>>)>>
                ELSE <<>>
        w1 == IF s # NoScene
              THEN [w EXCEPT !.scene = s]
              ELSE [w EXCEPT !.scene = DefaultScene(w.made + 1), !.made = w.made + 1]
    IN  [w |-> w1,
         calls |-> torn \o
                   <<SceneCall("sceneSetup", w1.scene, <<>>),
                     SceneCall("OnResize", w1.scene, <<w1.width, w1.height>>)>>]

\* A call on the window held.
WindowStep(op, arg, w, calls) ==
    /\ last.type = "Window"
    /\ last' = MathCall(op, "Window", last.m, arg, <<>>, w, 0)
                  @@ [calls |-> calls]
    /\ UNCHANGED nodeVars

\* w.SetScene(s); SetScene(nil) makes a Scene.
SetSceneCall(s) ==
    /\ s = NoScene => last.m.made < MaxScenes
    /\ WindowStep("SetScene", s, SetScene(last.m, s).w, SetScene(last.m, s).calls)

\* onResize: the size callback of the window.
OnResizeCall(width, height) ==
    WindowStep("onResize", <<width, height>>,
               [last.m EXCEPT !.width = width, !.height = height],
               <<SceneCall("OnResize", last.m.scene, <<width, height>>)>>)

\* onClose: the close callback of the window.
OnCloseCall ==
    WindowStep("onClose", Nil, last.m, <<SceneCall("TearDown", last.m.scene, <<>>)>>)

\* The window as newWindow has it when it installs the default scene: the
\* size is set, the scene is nil and new(Scene) was called once.
NewWindowFields(width, height) ==
    [width |-> width, height |-> height, scene |-> NoScene, made |-> 1]

\* w := newWindow(app, name, width, height)
InitWindow ==
    /\ parent = <<>>
    /\ children = <<>>
    /\ position = <<>>
    /\ rotation = <<>>
    /\ scale = <<>>
    /\ transformValid = <<>>
    /\ transform = <<>>
    /\ worldTransform = <<>>
    /\ crashed = FALSE
    /\ \E size \in Sizes :
          LET w0 == NewWindowFields(size[1], size[2])
              set == SetScene(w0, DefaultScene(1))
          IN  last = MathCall("newWindow", "Window", w0, DefaultScene(1), <<>>, set.w, 0)
                        @@ [calls |-> set.calls]

NextWindow ==
    \/ \E s \in UserScenes \cup {NoScene} : SetSceneCall(s)
    \/ \E size \in Sizes : OnResizeCall(size[1], size[2])
    \/ OnCloseCall

SpecWindow == InitWindow /\ [][NextWindow]_vars

\* The calls a SetScene that finds the scene old and installs the scene new
\* in the window w is to make.
ExpectedCalls(old, new, w) ==
    (IF old # NoScene THEN <<SceneCall("TearDown", old, <<>>)>> ELSE <<>>) \o
    <<SceneCall("sceneSetup", new, <<>>),
      SceneCall("OnResize", new, <<w.width, w.height>>)>>

(***************************************************************************)
(* C25: the window always has a scene: after newWindow, after every        *)
(* SetScene and after every callback w.scene is not nil, and SetScene(nil) *)
(* installs a Scene made for it. Every SetScene tears the previous scene   *)
(* down, then sets the new scene up, then calls the new scene's OnResize   *)
(* with the width and height the window has, and makes no other call.      *)
(***************************************************************************)
C25_WindowAlwaysHasScene ==
    /\ last.m.scene # NoScene
    /\ last.op \in {"newWindow", "SetScene"} =>
          /\ last.arg # NoScene => last.m.scene = last.arg
          /\ last.arg = NoScene =>
                /\ last.m.scene = DefaultScene(last.m.made)
                /\ last.m.made = last.recv.made + 1
                /\ last.m.scene # last.recv.scene
          /\ last.m.width = last.recv.width
          /\ last.m.height = last.recv.height
          /\ last.calls = ExpectedCalls(last.recv.scene, last.m.scene, last.m)
    /\ last.op = "SetScene" => last.recv.scene # NoScene

\* SetScene(nil) on a window that was resized to 800 x 600 and shows a scene
\* of the application: that scene is torn down, the second Scene is made,
\* set up and resized to 800 x 600.
C25_Witness ==
    /\ last.op = "SetScene"
    /\ last.arg = NoScene
    /\ last.recv.scene \in UserScenes
    /\ last.m.scene = DefaultScene(2)
    /\ Len(last.calls) = 3
    /\ last.calls[1].method = "TearDown"
    /\ last.calls[1].scene = last.recv.scene
    /\ last.calls[3].args = <<800, 600>>
    /\ last.recv.width = 800

====
